---- MODULE Spec2Model ----
(***************************************************************************)
(* Real-time conversational backbone of AIVlingual: token-bucket rate      *)
(* limiter, connection registry, session and speech-session registries,    *)
(* conversation memory and the streaming response orchestrator.            *)
(*                                                                         *)
(* Scheduling model: one asyncio event loop.  A coroutine runs without     *)
(* preemption until it awaits something that really suspends (transport    *)
(* reads and writes, the generation collaborator).  Awaiting a coroutine   *)
(* that never suspends (an uncontended asyncio.Lock, TokenBucket._refill,  *)
(* the registries' async methods) does not yield to the loop, so those     *)
(* calls are one atomic step here.                                         *)
(*                                                                         *)
(* Time is datetime.utcnow() in whole seconds (variable now).  Token       *)
(* counts are Python floats; they are kept exactly as integers counted in  *)
(* 1/TokenUnit of a token.                                                 *)
(***************************************************************************)
EXTENDS Integers, Sequences, FiniteSets, TLC

Min(a, b) == IF a <= b THEN a ELSE b

Max(a, b) == IF a >= b THEN a ELSE b

\* Client identifiers (session ids handed out by SessionManager.create_session).
Clients == {"c1", "c2"}

NoClient == "none"

(***************************************************************************)
(* Bounds                                                                  *)
(***************************************************************************)
\* RateLimiter(requests_per_minute, requests_per_hour, burst_size): the
\* module instance is RateLimiter(30, 500, 5); the model runs a smaller
\* instance of the same class so that exhaustion is reachable.
RequestsPerMinute == 2

RequestsPerHour == 3

BurstSize == 1

\* Number of clock advances in one behaviour.
MaxAdvances == 2

\* update_context keeps the last 10 turns (20 lines); the model keeps fewer.
HistoryTurns == 2

\* Turns recorded in one session in one behaviour.
MaxTurns == 2

\* Sessions created by direct create_session calls in one behaviour.
MaxSessions == 1

\* add_final_transcript keeps the last 50 transcripts; the model keeps fewer.
TranscriptCap == 1

\* Final transcripts added to one speech session in one behaviour.
MaxRecognitions == 2

\* Errors recorded in one speech session in one behaviour.
MaxErrors == 1

\* Websockets accepted in one behaviour.
MaxSockets == 2

\* Messages passed to ConnectionManager.send_message in one behaviour.
MaxSends == 2

\* Fragments the generation collaborator produces for one streamed response.
MaxFrags == 3

\* Generation requests received in one behaviour.
MaxRequests == 2

\* ConversationMemory(window_size = settings.MAX_CONVERSATION_TURNS), 10 in
\* the configuration; the model keeps a smaller window.
WindowSize == 2

\* Pongs one connection is sent between two generation requests.
MaxPings == 1

\* Direct calls of ConversationMemory.add_message.
MaxAdds == 6

\* Calls of check_rate_limit that may be in progress together.
MaxCalls == 4

(***************************************************************************)
(* Program constants                                                       *)
(***************************************************************************)
\* refill rates are per second: requests_per_hour / 3600, so one token is
\* 3600 units and the global bucket gains requests_per_hour units a second.
TokenUnit == 3600

\* requests_per_minute / 60 tokens a second = requests_per_minute * 60 units.
SecondsPerMinute == 60

\* cleanup_inactive_clients(inactive_threshold_minutes = 30)
InactiveThresholdMinutes == 30

\* SessionManager.session_ttl, seconds
SessionTTL == 3600

\* SpeechRecognitionManager(session_timeout_minutes = 30)
SpeechTimeoutMinutes == 30

\* asyncio.wait_for(..., timeout=30.0) in generate_response
GenerationTimeout == 30

VARIABLES
    now,             \* datetime.utcnow(), seconds
    advances,        \* clock advances so far (bounds the behaviour)
    client_buckets,  \* RateLimiter.client_buckets: client id -> TokenBucket
    global_bucket,   \* RateLimiter.global_bucket
    rl_last,         \* observation of the last check_rate_limit call
    rl_run,          \* per client: admitted calls in a row with no elapsed time
    sessions,        \* SessionManager.sessions of websocket_handler.session_manager
    issued,          \* session ids handed out so far (uuid4 values are fresh)
    sm_last,         \* observation of the last SessionManager call
    sm_swept,        \* cleanup_expired_sessions has run at least once
    speech_sessions, \* SpeechRecognitionManager.sessions: client id -> SpeechSession
    sp_last,         \* observation of the last SpeechRecognitionManager call
    active_connections, \* ConnectionManager.active_connections: client id -> websocket
    ws_state,        \* per accepted websocket: "open", or "dropped" once the peer is gone
    ws_sent,         \* per websocket: the messages send_json delivered since the
                     \* peer's last request, in order
    ws_tried,        \* per websocket: the messages send_json was called with after the drop
    cm_last,         \* observation of the last ConnectionManager call
    memory,          \* per responder: conversation_memory.messages
    task,            \* per client: where its endpoint coroutine stands and the request it serves
    requests,        \* generation requests received so far (numbers them)
    calls,           \* per call of check_rate_limit followed await by await: its
                     \* position and local variables
    bc               \* the call of ConnectionManager.broadcast: its position in the
                     \* loop over active_connections.values()

rlVars == <<client_buckets, global_bucket, rl_last, rl_run, calls>>

smVars == <<sessions, issued, sm_last, sm_swept>>

spVars == <<speech_sessions, sp_last>>

cmVars == <<active_connections, ws_state, ws_sent, ws_tried, cm_last>>

orVars == <<memory, task, requests>>

clockVars == <<now, advances>>

bcVars == <<bc>>

exceptRL == <<clockVars, bcVars, smVars, spVars, cmVars, orVars>>

exceptSM == <<clockVars, bcVars, rlVars, spVars, cmVars, orVars>>

exceptSP == <<clockVars, bcVars, rlVars, smVars, cmVars, orVars>>

exceptCM == <<clockVars, bcVars, rlVars, smVars, spVars, orVars>>

vars == <<now, advances, client_buckets, global_bucket, rl_last, rl_run,
          sessions, issued, sm_last, sm_swept, speech_sessions, sp_last,
          active_connections, ws_state, ws_sent, ws_tried, cm_last,
          memory, task, requests, calls, bc>>

(***************************************************************************)
(* TokenBucket                                                             *)
(***************************************************************************)
\* TokenBucket.__init__: tokens = capacity, last_update = utcnow()
TokenBucket(capacity, refill_rate, burst_size, t) ==
    [capacity |-> capacity, refill_rate |-> refill_rate, burst_size |-> burst_size,
     tokens |-> capacity * TokenUnit, last_update |-> t]

\* capacity + burst_size, in units
BucketLimit(b) == (b.capacity + b.burst_size) * TokenUnit

\* A refill that forgets the cap.
refill_nocap(b, t) ==
    [b EXCEPT !.tokens = b.tokens + (t - b.last_update) * b.refill_rate,
              !.last_update = t]

\* TokenBucket._refill
refill(b, t) ==
    [b EXCEPT !.tokens = Min(b.tokens + (t - b.last_update) * b.refill_rate, BucketLimit(b)),
              !.last_update = t]

\* A consume that charges without looking at the balance.
consume_nocheck(b, n, t) ==
    LET r == refill(b, t) IN
    [bucket |-> [r EXCEPT !.tokens = @ - n * TokenUnit], ok |-> TRUE]

\* TokenBucket.consume: refill, then take n tokens if they are there
consume(b, n, t) ==
    LET r == refill(b, t) IN
    IF r.tokens >= n * TokenUnit
    THEN [bucket |-> [r EXCEPT !.tokens = @ - n * TokenUnit], ok |-> TRUE]
    ELSE [bucket |-> r, ok |-> FALSE]

\* A refund that gives nothing back.
add_tokens_none(b, n) == b

\* TokenBucket.add_tokens (refund)
add_tokens(b, n) ==
    [b EXCEPT !.tokens = Min(b.tokens + n * TokenUnit, BucketLimit(b))]

\* TokenBucket.get_retry_after: int(seconds_needed) + 1
bucket_retry_after(b) ==
    IF b.tokens >= TokenUnit THEN 0
    ELSE ((TokenUnit - b.tokens) \div b.refill_rate) + 1

(***************************************************************************)
(* RateLimiter                                                             *)
(***************************************************************************)
\* refill_rate = requests_per_minute / 60 per second
ClientBucket(t) ==
    TokenBucket(RequestsPerMinute, RequestsPerMinute * SecondsPerMinute, BurstSize, t)

\* refill_rate = requests_per_hour / 3600 per second
GlobalBucket(t) == TokenBucket(RequestsPerHour, RequestsPerHour, BurstSize, t)

NoCheck ==
    [client |-> NoClient, existed |-> FALSE, elapsed |-> 0, cpre |-> 0, cref |-> 0,
     gref |-> 0, cpost |-> 0, gpost |-> 0, client_allowed |-> FALSE,
     global_allowed |-> FALSE, result |-> FALSE]

\* The value of RateLimiter.check_rate_limit(c) at time t: the two buckets
\* after the call, the return value and what the call saw.
check_rate_limit(buckets, glob, c, t) ==
    LET existed == c \in DOMAIN buckets
        cb0 == IF existed THEN buckets[c] ELSE ClientBucket(t)
        cres == consume(cb0, 1, t)
        gres == consume(glob, 1, t)
        refunded == add_tokens(cres.bucket, 1)
        cb1 == IF cres.ok /\ ~gres.ok THEN refunded ELSE cres.bucket
    IN [cbucket |-> cb1,
        gbucket |-> gres.bucket,
        result |-> cres.ok /\ gres.ok,
        seen |-> [client |-> c, existed |-> existed,
                  elapsed |-> t - cb0.last_update,
                  cpre |-> cb0.tokens,
                  cref |-> refill(cb0, t).tokens,
                  gref |-> refill(glob, t).tokens,
                  cpost |-> cb1.tokens, gpost |-> gres.bucket.tokens,
                  client_allowed |-> cres.ok, global_allowed |-> gres.ok,
                  result |-> cres.ok /\ gres.ok]]

\* RateLimiter.get_retry_after
get_retry_after(buckets, c) ==
    IF c \in DOMAIN buckets THEN bucket_retry_after(buckets[c]) ELSE 0

\* Bookkeeping of runs of admitted calls with no elapsed time in between.
RunAfter(run, c, r) ==
    IF r.result
    THEN IF run[c].n = 0
         THEN [run EXCEPT ![c] = [n |-> 1, start |-> r.seen.cref]]
         ELSE [run EXCEPT ![c].n = @ + 1]
    ELSE [run EXCEPT ![c] = [n |-> 0, start |-> 0]]

NoRuns == [c \in Clients |-> [n |-> 0, start |-> 0]]

\* One call of rate_limiter.check_rate_limit(c)
CheckRateLimit(c) ==
    LET r == check_rate_limit(client_buckets, global_bucket, c, now) IN
    /\ client_buckets' = [k \in DOMAIN client_buckets \cup {c} |->
                            IF k = c THEN r.cbucket ELSE client_buckets[k]]
    /\ global_bucket' = r.gbucket
    /\ rl_last' = r.seen
    /\ rl_run' = RunAfter(rl_run, c, r)
    /\ UNCHANGED <<calls, exceptRL>>

\* A sweep that takes every bucket for inactive.
Inactive_always(bucket, t) == TRUE

\* cleanup_inactive_clients: current_time - bucket.last_update > threshold
Inactive(bucket, t) ==
    t - bucket.last_update > InactiveThresholdMinutes * SecondsPerMinute

\* a call that has not started
NoCall ==
    [pc |-> "idle", client |-> NoClient, client_allowed |-> FALSE,
     global_allowed |-> FALSE, result |-> FALSE, detached |-> FALSE]

Calls == 1..MaxCalls

\* the calls that have started and not returned
InFlight == {p \in Calls : calls[p].pc \in {"global", "refund"}}

\* RateLimiter.cleanup_inactive_clients. A call in progress keeps its
\* reference to a bucket the sweep deletes from the dict: it is detached.
CleanupInactiveClients ==
    LET gone == {c \in DOMAIN client_buckets : Inactive(client_buckets[c], now)} IN
    /\ client_buckets' = [k \in DOMAIN client_buckets \ gone |-> client_buckets[k]]
    /\ rl_run' = [c \in Clients |-> IF c \in gone THEN [n |-> 0, start |-> 0] ELSE rl_run[c]]
    /\ calls' = [p \in Calls |->
                   IF p \in InFlight /\ calls[p].client \in gone
                   THEN [calls[p] EXCEPT !.detached = TRUE]
                   ELSE calls[p]]
    /\ UNCHANGED <<global_bucket, rl_last, exceptRL>>

\* check_rate_limit up to its first await: the bucket is looked up or created
\* and one token is asked of it. consume holds the bucket's lock from the
\* refill to the write of the new balance and nothing inside suspends.
CallClient(p, c) ==
    LET cb0 == IF c \in DOMAIN client_buckets THEN client_buckets[c] ELSE ClientBucket(now)
        cres == consume(cb0, 1, now) IN
    /\ calls[p].pc = "idle"
    /\ p > 1 => calls[p - 1].pc # "idle"
    /\ client_buckets' = [k \in DOMAIN client_buckets \cup {c} |->
                            IF k = c THEN cres.bucket ELSE client_buckets[k]]
    /\ calls' = [calls EXCEPT ![p] = [NoCall EXCEPT !.pc = "global", !.client = c,
                                                     !.client_allowed = cres.ok]]
    /\ UNCHANGED <<global_bucket, rl_last, rl_run, exceptRL>>

\* A second await that decides without writing the balance back.
CallGlobal_unwritten(p) ==
    LET gres == consume(global_bucket, 1, now)
        refund == calls[p].client_allowed /\ ~gres.ok IN
    /\ calls[p].pc = "global"
    /\ calls' = [calls EXCEPT ![p].pc = IF refund THEN "refund" ELSE "done",
                              ![p].global_allowed = gres.ok,
                              ![p].result = calls[p].client_allowed /\ gres.ok]
    /\ UNCHANGED <<global_bucket, client_buckets, rl_last, rl_run, exceptRL>>

\* check_rate_limit, the second await: one token is asked of the global
\* bucket whatever the client's bucket answered. The call then returns,
\* unless it has a token to give back, which is a third await.
CallGlobal(p) ==
    LET gres == consume(global_bucket, 1, now)
        refund == calls[p].client_allowed /\ ~gres.ok IN
    /\ calls[p].pc = "global"
    /\ global_bucket' = gres.bucket
    /\ calls' = [calls EXCEPT ![p].pc = IF refund THEN "refund" ELSE "done",
                              ![p].global_allowed = gres.ok,
                              ![p].result = calls[p].client_allowed /\ gres.ok]
    /\ UNCHANGED <<client_buckets, rl_last, rl_run, exceptRL>>

\* check_rate_limit, the third await and the return: the token goes back to
\* the bucket object the call holds.
CallRefund(p) ==
    LET c == calls[p].client IN
    /\ calls[p].pc = "refund"
    /\ client_buckets' =
          IF calls[p].detached
          THEN client_buckets
          ELSE [client_buckets EXCEPT ![c] = add_tokens(@, 1)]
    /\ calls' = [calls EXCEPT ![p].pc = "done"]
    /\ UNCHANGED <<global_bucket, rl_last, rl_run, exceptRL>>

(***************************************************************************)
(* SessionManager                                                          *)
(***************************************************************************)
Languages == {"ja-JP", "en-US"}

\* the dict d without key k
Without(d, k) == [x \in DOMAIN d \ {k} |-> d[x]]

\* the dict d with d[k] = v
With(d, k, v) == [x \in DOMAIN d \cup {k} |-> IF x = k THEN v ELSE d[x]]

\* A slice that keeps the first n elements.
LastN_first(lst, n) ==
    IF Len(lst) <= n THEN lst ELSE SubSeq(lst, 1, n)

\* the last n elements of a list: lst[-n:]
LastN(lst, n) ==
    IF Len(lst) <= n THEN lst ELSE SubSeq(lst, Len(lst) - n + 1, Len(lst))

\* SessionManager.create_session: the stored session
NewSession(t) ==
    [created_at |-> t, updated_at |-> t, conversation_history |-> <<>>,
     language_preference |-> "auto", context |-> <<>>, turn_count |-> 0]

\* An expiry test that already fires at an age of exactly the TTL.
SessionExpired_early(s, t) == t - s.created_at >= SessionTTL

\* datetime.utcnow() - created_at > timedelta(seconds = session_ttl)
SessionExpired(s, t) == t - s.created_at > SessionTTL

\* SessionManager.get_session: the dict after the call and whether a session
\* was returned
get_session(sess, id, t) ==
    IF id \in DOMAIN sess
    THEN IF SessionExpired(sess[id], t)
         THEN [sessions |-> Without(sess, id), found |-> FALSE]
         ELSE [sessions |-> sess, found |-> TRUE]
    ELSE [sessions |-> sess, found |-> FALSE]

\* the lines "User: <user_input>" and "AI: <ai_response>" of one turn
TurnLines(user_input, ai_response) ==
    [i \in 1..Len(user_input) |->
        [tag |-> IF i = 1 THEN "User" ELSE "", text |-> user_input[i]]]
    \o [i \in 1..Len(ai_response) |->
        [tag |-> IF i = 1 THEN "AI" ELSE "", text |-> ai_response[i]]]

\* SessionManager.update_context
update_context(sess, id, user_input, ai_response, t) ==
    LET g == get_session(sess, id, t) IN
    IF ~g.found THEN [sessions |-> g.sessions, result |-> FALSE]
    ELSE LET s == g.sessions[id]
             lines == s.conversation_history \o TurnLines(user_input, ai_response)
             s1 == [s EXCEPT !.conversation_history = LastN(lines, 2 * HistoryTurns),
                             !.turn_count = @ + 1,
                             !.updated_at = t]
         IN [sessions |-> With(g.sessions, id, s1), result |-> TRUE]

DefaultContext ==
    [conversation_history |-> <<>>, turn_count |-> 0, language_preference |-> "auto"]

\* SessionManager.get_context
get_context(sess, id, t) ==
    LET g == get_session(sess, id, t) IN
    IF ~g.found THEN [sessions |-> g.sessions, found |-> FALSE, context |-> DefaultContext]
    ELSE [sessions |-> g.sessions, found |-> TRUE,
          context |-> [conversation_history |-> g.sessions[id].conversation_history,
                       turn_count |-> g.sessions[id].turn_count,
                       language_preference |-> g.sessions[id].language_preference,
                       context |-> g.sessions[id].context]]

\* SessionManager.set_preference
set_preference(sess, id, preference_type, value, t) ==
    LET g == get_session(sess, id, t) IN
    IF ~g.found THEN [sessions |-> g.sessions, result |-> FALSE]
    ELSE LET s == g.sessions[id]
             s1 == IF preference_type = "language"
                   THEN [s EXCEPT !.language_preference = value, !.updated_at = t]
                   ELSE [s EXCEPT !.context = With(s.context, preference_type, value),
                                  !.updated_at = t]
         IN [sessions |-> With(g.sessions, id, s1), result |-> TRUE]

\* SessionManager.reset_context
reset_context(sess, id, t) ==
    LET g == get_session(sess, id, t) IN
    IF ~g.found THEN [sessions |-> g.sessions, result |-> FALSE]
    ELSE LET s1 == [g.sessions[id] EXCEPT !.conversation_history = <<>>,
                                          !.turn_count = 0,
                                          !.updated_at = t]
         IN [sessions |-> With(g.sessions, id, s1), result |-> TRUE]

\* SessionManager.end_session
end_session(sess, id) ==
    IF id \in DOMAIN sess
    THEN [sessions |-> Without(sess, id), result |-> TRUE]
    ELSE [sessions |-> sess, result |-> FALSE]

\* SessionManager.cleanup_expired_sessions
cleanup_expired_sessions(sess, t) ==
    [id \in {k \in DOMAIN sess : ~SessionExpired(sess[k], t)} |-> sess[id]]

NoSessionCall ==
    [op |-> "none", id |-> NoClient, existed |-> FALSE, overdue |-> FALSE,
     untouched |-> FALSE, result |-> FALSE, gone |-> TRUE, frame |-> TRUE]

\* What a call on session id sees before it runs and leaves behind: overdue
\* says the session is older than the TTL, after is the dict after the call,
\* gone says id has no entry in it, frame says every other session is as it
\* was.
SessionCall(op, id, result, after) ==
    LET existed == id \in DOMAIN sessions IN
    [op |-> op, id |-> id, existed |-> existed,
     overdue |-> existed /\ now - sessions[id].created_at > SessionTTL,
     untouched |-> existed /\ sessions[id].updated_at = sessions[id].created_at
                           /\ sessions[id].turn_count = 0,
     result |-> result,
     gone |-> id \notin DOMAIN after,
     frame |-> \A k \in DOMAIN sessions \ {id} : k \in DOMAIN after /\ after[k] = sessions[k]]

CreateSession ==
    \E id \in Clients \ issued :
        /\ Cardinality(issued) < MaxSessions
        /\ sessions' = With(sessions, id, NewSession(now))
        /\ issued' = issued \cup {id}
        /\ sm_last' = SessionCall("create_session", id, TRUE, sessions')
        /\ UNCHANGED <<sm_swept, exceptSM>>

GetSession(id) ==
    LET r == get_session(sessions, id, now) IN
    /\ sessions' = r.sessions
    /\ sm_last' = SessionCall("get_session", id, r.found, sessions')
    /\ UNCHANGED <<issued, sm_swept, exceptSM>>

GetContext(id) ==
    LET r == get_context(sessions, id, now) IN
    /\ sessions' = r.sessions
    /\ sm_last' = SessionCall("get_context", id, r.found, sessions')
    /\ UNCHANGED <<issued, sm_swept, exceptSM>>

UpdateContext(id, user_input, ai_response) ==
    LET r == update_context(sessions, id, user_input, ai_response, now) IN
    /\ id \in DOMAIN sessions => sessions[id].turn_count < MaxTurns
    /\ sessions' = r.sessions
    /\ sm_last' = SessionCall("update_context", id, r.result, sessions')
    /\ UNCHANGED <<issued, sm_swept, exceptSM>>

SetPreference(id, preference_type, value) ==
    LET r == set_preference(sessions, id, preference_type, value, now) IN
    /\ sessions' = r.sessions
    /\ sm_last' = SessionCall("set_preference", id, r.result, sessions')
    /\ UNCHANGED <<issued, sm_swept, exceptSM>>

ResetContext(id) ==
    LET r == reset_context(sessions, id, now) IN
    /\ sessions' = r.sessions
    /\ sm_last' = SessionCall("reset_context", id, r.result, sessions')
    /\ UNCHANGED <<issued, sm_swept, exceptSM>>

EndSession(id) ==
    LET r == end_session(sessions, id) IN
    /\ sessions' = r.sessions
    /\ sm_last' = SessionCall("end_session", id, r.result, sessions')
    /\ UNCHANGED <<issued, sm_swept, exceptSM>>

CleanupExpiredSessions ==
    /\ sessions' = cleanup_expired_sessions(sessions, now)
    /\ sm_last' = SessionCall("cleanup_expired_sessions", NoClient, TRUE, sessions')
    /\ sm_swept' = TRUE
    /\ UNCHANGED <<issued, exceptSM>>

(***************************************************************************)
(* SpeechRecognitionManager                                                *)
(***************************************************************************)
\* SpeechSession(client_id, language): the dataclass defaults
SpeechSession(language, t) ==
    [language |-> language, started_at |-> t, last_activity |-> t,
     is_active |-> TRUE, interim_transcript |-> "", final_transcripts |-> <<>>,
     error_count |-> 0, total_duration |-> 0, recognition_count |-> 0,
     last_error |-> "none"]

\* SpeechRecognitionManager.create_session
speech_create_session(sess, c, language, t) ==
    IF c \in DOMAIN sess
    THEN With(sess, c, [sess[c] EXCEPT !.is_active = TRUE,
                                       !.language = language,
                                       !.last_activity = t])
    ELSE With(sess, c, SpeechSession(language, t))

\* An update_session_activity that makes a session for a client it does not
\* know.
update_session_activity_or_create(sess, c, t) ==
    IF c \in DOMAIN sess
    THEN [sessions |-> With(sess, c, [sess[c] EXCEPT !.last_activity = t]), found |-> TRUE]
    ELSE [sessions |-> With(sess, c, SpeechSession("ja-JP", t)), found |-> TRUE]

\* SpeechRecognitionManager.update_session_activity
update_session_activity(sess, c, t) ==
    IF c \in DOMAIN sess
    THEN [sessions |-> With(sess, c, [sess[c] EXCEPT !.last_activity = t]), found |-> TRUE]
    ELSE [sessions |-> sess, found |-> FALSE]

\* SpeechRecognitionManager.add_interim_transcript
add_interim_transcript(sess, c, transcript, t) ==
    LET u == update_session_activity(sess, c, t) IN
    IF u.found
    THEN [sessions |-> With(u.sessions, c,
                            [u.sessions[c] EXCEPT !.interim_transcript = transcript]),
          found |-> TRUE]
    ELSE u

FinalRecord(transcript, confidence, language, t) ==
    [transcript |-> transcript, confidence |-> confidence, language |-> language,
     timestamp |-> t]

\* An add_final_transcript that leaves the interim transcript in place.
add_final_transcript_keep(sess, c, transcript, confidence, language, t) ==
    LET u == update_session_activity(sess, c, t) IN
    IF u.found
    THEN LET s0 == u.sessions[c]
             lst == Append(s0.final_transcripts,
                           FinalRecord(transcript, confidence, language, t))
         IN [sessions |-> With(u.sessions, c,
                [s0 EXCEPT !.final_transcripts = LastN(lst, TranscriptCap),
                           !.recognition_count = @ + 1]),
             found |-> TRUE]
    ELSE u

\* SpeechRecognitionManager.add_final_transcript
add_final_transcript(sess, c, transcript, confidence, language, t) ==
    LET u == update_session_activity(sess, c, t) IN
    IF u.found
    THEN LET s0 == u.sessions[c]
             lst == Append(s0.final_transcripts,
                           FinalRecord(transcript, confidence, language, t))
         IN [sessions |-> With(u.sessions, c,
                [s0 EXCEPT !.interim_transcript = "",
                           !.final_transcripts = LastN(lst, TranscriptCap),
                           !.recognition_count = @ + 1]),
             found |-> TRUE]
    ELSE u

\* SpeechRecognitionManager.record_error
record_error(sess, c, error_type, t) ==
    LET u == update_session_activity(sess, c, t) IN
    IF u.found
    THEN [sessions |-> With(u.sessions, c,
                            [u.sessions[c] EXCEPT !.error_count = @ + 1,
                                                  !.last_error = error_type]),
          found |-> TRUE]
    ELSE u

\* SpeechRecognitionManager.end_session
speech_end_session(sess, c, t) ==
    IF c \in DOMAIN sess
    THEN [sessions |-> With(sess, c, [sess[c] EXCEPT !.is_active = FALSE,
                                                     !.total_duration = t - sess[c].started_at]),
          found |-> TRUE]
    ELSE [sessions |-> sess, found |-> FALSE]

\* A sweep that looks at the idle time only.
cleanup_idle_sessions(sess, t) ==
    [c \in {k \in DOMAIN sess :
              ~(t - sess[k].last_activity > SpeechTimeoutMinutes * SecondsPerMinute)}
       |-> sess[c]]

\* One pass of SpeechRecognitionManager._cleanup_inactive_sessions
cleanup_inactive_sessions(sess, t) ==
    [c \in {k \in DOMAIN sess :
              ~(~sess[k].is_active
                /\ t - sess[k].last_activity > SpeechTimeoutMinutes * SecondsPerMinute)}
       |-> sess[c]]

NoSpeechCall ==
    [op |-> "none", id |-> NoClient, existed |-> FALSE, found |-> FALSE,
     interim |-> "", record |-> FinalRecord("", 0, "", 0)]

\* What a call for client c saw: whether c had a session, whether one was
\* returned, the interim transcript it found and the record it added.
SpeechCall(op, c, found, record) ==
    [op |-> op, id |-> c, existed |-> c \in DOMAIN speech_sessions, found |-> found,
     interim |-> IF c \in DOMAIN speech_sessions
                 THEN speech_sessions[c].interim_transcript ELSE "",
     record |-> record]

SpeechCreateSession(c, language) ==
    /\ speech_sessions' = speech_create_session(speech_sessions, c, language, now)
    /\ sp_last' = SpeechCall("create_session", c, TRUE, NoSpeechCall.record)
    /\ UNCHANGED exceptSP

UpdateSessionActivity(c) ==
    LET r == update_session_activity(speech_sessions, c, now) IN
    /\ speech_sessions' = r.sessions
    /\ sp_last' = SpeechCall("update_session_activity", c, r.found, NoSpeechCall.record)
    /\ UNCHANGED exceptSP

AddInterimTranscript(c, transcript) ==
    LET r == add_interim_transcript(speech_sessions, c, transcript, now) IN
    /\ speech_sessions' = r.sessions
    /\ sp_last' = SpeechCall("add_interim_transcript", c, r.found, NoSpeechCall.record)
    /\ UNCHANGED exceptSP

AddFinalTranscript(c, transcript, confidence, language) ==
    LET r == add_final_transcript(speech_sessions, c, transcript, confidence, language, now) IN
    /\ c \in DOMAIN speech_sessions =>
         speech_sessions[c].recognition_count < MaxRecognitions
    /\ speech_sessions' = r.sessions
    /\ sp_last' = SpeechCall("add_final_transcript", c, r.found,
                             FinalRecord(transcript, confidence, language, now))
    /\ UNCHANGED exceptSP

RecordError(c, error_type) ==
    LET r == record_error(speech_sessions, c, error_type, now) IN
    /\ c \in DOMAIN speech_sessions => speech_sessions[c].error_count < MaxErrors
    /\ speech_sessions' = r.sessions
    /\ sp_last' = SpeechCall("record_error", c, r.found, NoSpeechCall.record)
    /\ UNCHANGED exceptSP

SpeechEndSession(c) ==
    LET r == speech_end_session(speech_sessions, c, now) IN
    /\ speech_sessions' = r.sessions
    /\ sp_last' = SpeechCall("end_session", c, r.found, NoSpeechCall.record)
    /\ UNCHANGED exceptSP

CleanupInactiveSessions ==
    /\ speech_sessions' = cleanup_inactive_sessions(speech_sessions, now)
    /\ sp_last' = SpeechCall("cleanup_inactive_sessions", NoClient, TRUE, NoSpeechCall.record)
    /\ UNCHANGED exceptSP

(***************************************************************************)
(* The transport (starlette WebSocket) and ConnectionManager               *)
(***************************************************************************)
\* websockets are numbered in the order they are accepted
Sockets == DOMAIN ws_state

\* WebSocket.send_json(message) on websocket w: delivered while the peer is
\* there; once it is gone the call raises and nothing is delivered.
send_json(state, sent, tried, w, message) ==
    IF state[w] = "open"
    THEN [sent |-> [sent EXCEPT ![w] = Append(@, message)], tried |-> tried, raised |-> FALSE]
    ELSE [sent |-> sent, tried |-> [tried EXCEPT ![w] = Append(@, message)], raised |-> TRUE]

\* ConnectionManager.connect: accept, then active_connections[client_id] = websocket
connect(conns, w, c) == With(conns, c, w)

\* A disconnect that deletes without looking: del raises KeyError when the
\* client has no entry.
disconnect_unguarded(conns, c) ==
    [conns |-> Without(conns, c), raised |-> c \notin DOMAIN conns]

\* ConnectionManager.disconnect
disconnect(conns, c) ==
    IF c \in DOMAIN conns
    THEN [conns |-> Without(conns, c), raised |-> FALSE]
    ELSE [conns |-> conns, raised |-> FALSE]

\* A send_message that indexes the dict without looking: KeyError when the
\* client has no entry.
send_message_unguarded(conns, state, sent, tried, c, message) ==
    IF c \in DOMAIN conns
    THEN send_json(state, sent, tried, conns[c], message)
    ELSE [sent |-> sent, tried |-> tried, raised |-> TRUE]

\* ConnectionManager.send_message
send_message(conns, state, sent, tried, c, message) ==
    IF c \in DOMAIN conns
    THEN send_json(state, sent, tried, conns[c], message)
    ELSE [sent |-> sent, tried |-> tried, raised |-> FALSE]

NoConnCall ==
    [op |-> "none", id |-> NoClient, existed |-> FALSE, raised |-> FALSE,
     changed |-> FALSE, again |-> FALSE]

\* What a ConnectionManager call for client c saw and did: whether c was
\* registered, whether the call raised, whether it changed the registry or
\* passed anything to a websocket, and whether it repeats the call before it.
ConnCall(op, c, raised, conns, sent, tried) ==
    [op |-> op, id |-> c, existed |-> c \in DOMAIN active_connections, raised |-> raised,
     changed |-> conns # active_connections \/ sent # ws_sent \/ tried # ws_tried,
     again |-> cm_last.op = op /\ cm_last.id = c]

\* the number of messages handed to any websocket so far
TotalSends ==
    LET RECURSIVE Sum(_)
        Sum(S) == IF S = {} THEN 0
                  ELSE LET w == CHOOSE x \in S : TRUE
                       IN Len(ws_sent[w]) + Len(ws_tried[w]) + Sum(S \ {w})
    IN Sum(Sockets)

\* manager.connect(websocket, c) with a newly accepted websocket
Connect(c) ==
    LET w == Cardinality(Sockets) + 1 IN
    /\ Cardinality(Sockets) < MaxSockets
    /\ ws_state' = With(ws_state, w, "open")
    /\ ws_sent' = With(ws_sent, w, <<>>)
    /\ ws_tried' = With(ws_tried, w, <<>>)
    /\ active_connections' = connect(active_connections, w, c)
    /\ cm_last' = ConnCall("connect", c, FALSE, active_connections', ws_sent, ws_tried)
    /\ UNCHANGED exceptCM

\* manager.disconnect(c)
Disconnect(c) ==
    LET r == disconnect(active_connections, c) IN
    /\ active_connections' = r.conns
    /\ cm_last' = ConnCall("disconnect", c, r.raised, r.conns, ws_sent, ws_tried)
    /\ UNCHANGED <<ws_state, ws_sent, ws_tried, exceptCM>>

\* manager.send_message(c, message)
SendMessage(c, message) ==
    LET r == send_message(active_connections, ws_state, ws_sent, ws_tried, c, message) IN
    /\ TotalSends < MaxSends
    /\ ws_sent' = r.sent
    /\ ws_tried' = r.tried
    /\ cm_last' = ConnCall("send_message", c, r.raised, active_connections, r.sent, r.tried)
    /\ UNCHANGED <<active_connections, ws_state, exceptCM>>

\* The peer of websocket w goes away.
Drop(w) ==
    /\ w \in Sockets
    /\ ws_state[w] = "open"
    /\ ws_state' = [ws_state EXCEPT ![w] = "dropped"]
    /\ UNCHANGED <<active_connections, ws_sent, ws_tried, cm_last, exceptCM>>

\* No broadcast has been called.
NoBroadcast == [pc |-> "idle", last |-> 0, size |-> 0, targets |-> {}]

BroadcastMessage == [type |-> "broadcast", text |-> <<>>, req |-> 0]

\* the websockets registered in active_connections
Registered == {active_connections[c] : c \in DOMAIN active_connections}

\* One turn of the for loop of broadcast, b being the state of the call.
\* The iterator raises RuntimeError when the dict has changed size since the
\* loop began; otherwise it yields the next value in insertion order, which
\* is the order of the websocket numbers, or the loop ends.  send_json is
\* awaited with nothing around it: when it raises, broadcast raises.
broadcast_turn(b) ==
    LET rest == {w \in Registered : w > b.last}
        w == CHOOSE x \in rest : \A y \in rest : x <= y
        r == send_json(ws_state, ws_sent, ws_tried, w, BroadcastMessage)
    IN
    IF Cardinality(DOMAIN active_connections) # b.size
    THEN [bc |-> [b EXCEPT !.pc = "raised"], sent |-> ws_sent, tried |-> ws_tried]
    ELSE IF rest = {}
    THEN [bc |-> [b EXCEPT !.pc = "returned"], sent |-> ws_sent, tried |-> ws_tried]
    ELSE [bc |-> [b EXCEPT !.last = w, !.pc = IF r.raised THEN "raised" ELSE "sending"],
          sent |-> r.sent, tried |-> r.tried]

\* what a step of broadcast leaves alone
BroadcastFrame ==
    <<active_connections, ws_state, cm_last, clockVars, rlVars, smVars, spVars, orVars>>

\* manager.broadcast(message) is called: the for loop takes an iterator over
\* active_connections.values() and runs up to the first send.
Broadcast ==
    LET t == broadcast_turn([pc |-> "sending", last |-> 0,
                             size |-> Cardinality(DOMAIN active_connections),
                             targets |-> Registered]) IN
    /\ bc.pc = "idle"
    /\ bc' = t.bc
    /\ ws_sent' = t.sent
    /\ ws_tried' = t.tried
    /\ UNCHANGED BroadcastFrame

\* The awaited send returns and the loop takes its next turn.
BroadcastNext ==
    LET t == broadcast_turn(bc) IN
    /\ bc.pc = "sending"
    /\ bc' = t.bc
    /\ ws_sent' = t.sent
    /\ ws_tried' = t.tried
    /\ UNCHANGED BroadcastFrame

(***************************************************************************)
(* ConversationMemory and the generator generate_response_stream            *)
(***************************************************************************)
\* The BilingualAIResponder instances: speech_handler.ai_responder and
\* web_speech_handler.ai_responder.  Each owns one ConversationMemory.
Responders == {"speech", "web_speech"}

\* A text is a sequence of symbols; "" is <<>>.
NoText == <<>>

UserText == <<"hi">>

\* The k-th fragment of a response carries the symbol k, or is empty.
Symbol(k) == ToString(k)

Fragments(k) == {NoText, <<Symbol(k)>>}

\* A memory that stops taking messages once it is full.
memory_add_message_first(messages, role, content, req) ==
    IF Len(messages) >= WindowSize * 2 THEN messages
    ELSE Append(messages, [role |-> role, content |-> content, req |-> req])

\* ConversationMemory.add_message.  req names the request that added the
\* message (the code stamps each message with the time of the call).
memory_add_message(messages, role, content, req) ==
    LET lst == Append(messages, [role |-> role, content |-> content, req |-> req])
    IN IF Len(lst) > WindowSize * 2 THEN LastN(lst, WindowSize * 2) ELSE lst

Roles == {"user", "assistant"}

\* _build_context: context['conversation_history'], the whole of
\* conversation_memory.messages, which _create_prompt puts in the prompt
build_context(messages) == messages

\* conversation_memory.add_message(role, content) called on the memory of the
\* responder of speech_handler; the calls are numbered like the requests.
AddMessage(role, content) ==
    /\ requests < MaxAdds
    /\ requests' = requests + 1
    /\ memory' = [memory EXCEPT !["speech"] =
                     memory_add_message(@, role, content, requests + 1)]
    /\ UNCHANGED <<task, clockVars, bcVars, rlVars, smVars, spVars, cmVars>>

\* A generator whose final text is the last fragment only.
accumulate_last(full_response, chunk_text) == chunk_text

\* full_response += chunk_text
accumulate(full_response, chunk_text) == full_response \o chunk_text

\* The events generate_response_stream yields.
ChunkEvent(text, req) == [type |-> "chunk", text |-> text, req |-> req]

FinalEvent(text, req) == [type |-> "final", text |-> text, req |-> req]

\* A generator that reports a failure as one more chunk.
ErrorEvent_as_chunk(text, req) == [type |-> "chunk", text |-> text, req |-> req]

ErrorEvent(text, req) == [type |-> "error", text |-> text, req |-> req]

\* A user text in Japanese.  A symbol of a text stands for a run of
\* characters of one kind: Japanese, blank, or other.
JapaneseText == <<"konnichiwa">>

JapaneseSymbols == {"konnichiwa", "sumimasen"}

\* sum(1 for c in text if c is in one of the Japanese ranges)
japanese_chars(text) == Cardinality({i \in 1..Len(text) : text[i] \in JapaneseSymbols})

\* len(text.replace(' ', ''))
total_chars(text) == Cardinality({i \in 1..Len(text) : text[i] # " "})

\* _detect_user_language: Japanese when the ratio is above 0.3
detect_user_language(text) ==
    IF total_chars(text) = 0 THEN "en-US"
    ELSE IF 10 * japanese_chars(text) > 3 * total_chars(text) THEN "ja-JP" ELSE "en-US"

\* _determine_response_language: Japanese when the ratio is above 0.5
determine_response_language(response_text, user_language) ==
    IF total_chars(response_text) = 0 THEN user_language
    ELSE IF 2 * japanese_chars(response_text) > total_chars(response_text)
         THEN "ja-JP" ELSE "en-US"

\* A choice of language by the majority script alone.
response_language_majority(response_text, detected_language) ==
    determine_response_language(response_text, detected_language)

\* the response_language both generate methods compute for a finished text
response_language(response_text, detected_language) ==
    IF /\ detected_language = "ja-JP"
       /\ total_chars(response_text) > 0
       /\ 10 * japanese_chars(response_text) > 3 * total_chars(response_text)
    THEN "ja-JP"
    ELSE determine_response_language(response_text, detected_language)

\* _get_fallback_response(language)
get_fallback_response(language) ==
    IF language \in {"ja", "ja-JP"} THEN <<"sumimasen">> ELSE <<"sorry">>

\* "Rate limit exceeded. Please try again in {retry_after} seconds."
RateLimitText == <<"rate limit exceeded">>

\* What generate_response returns and, less its type, what
\* generate_response_stream yields last: tts_command says whether the
\* reply has one, metadata is the dict of that name.
Reply(text, language, tts_command, metadata) ==
    [text |-> text, language |-> language, tts_command |-> tts_command,
     metadata |-> metadata]

NoReply == Reply(NoText, "none", FALSE, <<>>)

\* A denial that says nothing of its cause.
rate_limit_reply_bare(streaming, language, retry_after) ==
    Reply(RateLimitText, language, FALSE, [fallback |-> TRUE])

\* the reply to a request that check_rate_limit refused
rate_limit_reply(streaming, language, retry_after) ==
    Reply(RateLimitText, language, FALSE,
          IF streaming
          THEN [error |-> "rate_limit_exceeded", retry_after |-> retry_after,
                is_final |-> TRUE]
          ELSE [error |-> "rate_limit_exceeded", retry_after |-> retry_after,
                fallback |-> TRUE])

\* A handler that forwards every event as a chunk.
forward_as_chunk(event) ==
    [type |-> "ai_response_chunk", text |-> event.text, req |-> event.req]

\* handle_generate_response_stream: the message sent for a yielded event
forward(event) ==
    [type |-> CASE event.type = "chunk" -> "ai_response_chunk"
                [] event.type = "final" -> "ai_response_final"
                [] OTHER -> "error",
     text |-> event.text, req |-> event.req]

\* The 'error' message of a handler's except clause.
HandlerError(req) == [type |-> "error", text |-> <<"handler error">>, req |-> req]

\* What a request did about persistence: the calls of _save_conversation
\* and the records the database service took.
NoSaves == [tried |-> 0, stored |-> 0]

\* The methods class DatabaseService defines.
DatabaseServiceMethods ==
    {"init_db", "save_conversation_turn", "get_conversation_history",
     "save_vocabulary_item", "get_vocabulary_items", "search_vocabulary",
     "get_statistics", "get_user_progress", "update_user_progress",
     "get_user_learning_stats", "get_due_reviews", "create_batch_history",
     "update_batch_history", "get_batch_history", "get_batch_details"}

\* WebSpeechHandler._save_conversation: builds the record and awaits
\* db_service.save_conversation(conversation); an exception, the
\* AttributeError of a method DatabaseService does not define included, is
\* caught and logged.
save_conversation(saved) ==
    [tried |-> saved.tried + 1,
     stored |-> IF "save_conversation" \in DatabaseServiceMethods
                THEN saved.stored + 1 ELSE saved.stored]

\* The endpoint coroutine of a client that has not connected.
NoTask ==
    [pc |-> "none", sock |-> 0, req |-> 0, via |-> "none", tts |-> FALSE,
     frags |-> <<>>, full |-> NoText, yielded |-> <<>>, ended |-> FALSE,
     outcome |-> "none", language |-> "auto", response |-> NoReply, started |-> 0,
     prompt |-> <<>>, mine |-> {}, saved |-> NoSaves]

(***************************************************************************)
(* websocket_audio_endpoint and the handlers of speech_handler              *)
(***************************************************************************)
ConnectionMessage == [type |-> "connection", text |-> NoText, req |-> 0]

\* rate_limiter.check_rate_limit(c) inside a larger step: r is its result
Charged(c, r) ==
    /\ client_buckets' = [k \in DOMAIN client_buckets \cup {c} |->
                            IF k = c THEN r.cbucket ELSE client_buckets[k]]
    /\ global_bucket' = r.gbucket
    /\ rl_last' = r.seen
    /\ rl_run' = RunAfter(rl_run, c, r)
    /\ UNCHANGED calls

\* websocket_audio_endpoint: the finally clause
Finally(c) ==
    LET d == disconnect(active_connections, c)
        e == end_session(sessions, c) IN
    /\ active_connections' = d.conns
    /\ cm_last' = ConnCall("disconnect", c, d.raised, d.conns, ws_sent, ws_tried)
    /\ sessions' = e.sessions
    /\ sm_last' = SessionCall("end_session", c, e.result, e.sessions)

\* n 'error' messages passed one after the other to send_json of a
\* websocket that is gone: each call raises
TriedErrors(tried, w, req, n) ==
    [tried EXCEPT ![w] = @ \o [i \in 1..n |-> HandlerError(req)]]

\* A handler of client c calls websocket.send_json(message), sent being what
\* the websockets delivered before, and, when that returns, leaves the task
\* as t.  When the call raises, each of the depth
\* enclosing except clauses tries to send an 'error' message, which raises
\* again; the exception reaches the endpoint's message loop, the loop breaks
\* and the finally clause runs; the request is left with outcome lost.
HandlerSend(c, sent, message, t, lost, depth) ==
    LET w == task[c].sock
        r == send_json(ws_state, sent, ws_tried, w, message)
    IN IF ~r.raised
       THEN /\ ws_sent' = r.sent
            /\ ws_tried' = r.tried
            /\ task' = [task EXCEPT ![c] = t]
            /\ UNCHANGED <<active_connections, cm_last, sessions, sm_last>>
       ELSE /\ ws_sent' = r.sent
            /\ ws_tried' = TriedErrors(r.tried, w, t.req, depth)
            /\ task' = [task EXCEPT ![c] = [t EXCEPT !.pc = "closed", !.outcome = lost]]
            /\ Finally(c)

\* The try blocks around a send: handle_generate_response_stream has one,
\* handle_generate_response called from it adds one, and so does
\* handle_synthesize_speech.
ExceptDepth(via, synth) ==
    (IF via = "fallback" THEN 2 ELSE 1) + (IF synth THEN 1 ELSE 0)

\* websocket_audio_endpoint up to the message loop: create_session,
\* manager.connect, the 'connection' message
Accept(c) ==
    LET w == Cardinality(Sockets) + 1 IN
    /\ c \notin issued
    /\ Cardinality(Sockets) < MaxSockets
    /\ sessions' = With(sessions, c, NewSession(now))
    /\ issued' = issued \cup {c}
    /\ sm_last' = SessionCall("create_session", c, TRUE, sessions')
    /\ ws_state' = With(ws_state, w, "open")
    /\ active_connections' = connect(active_connections, w, c)
    /\ cm_last' = ConnCall("connect", c, FALSE, active_connections', ws_sent, ws_tried)
    /\ ws_sent' = With(ws_sent, w, <<ConnectionMessage>>)
    /\ ws_tried' = With(ws_tried, w, <<>>)
    /\ task' = [task EXCEPT ![c] = [NoTask EXCEPT !.pc = "receive", !.sock = w]]
    /\ UNCHANGED <<sm_swept, memory, requests, clockVars, bcVars, rlVars, spVars>>

\* An endpoint that starts each handler as a task of its own and is back at
\* websocket.receive() while the handler runs.
AwaitingMessage_detached(c) == task[c].pc \in {"receive", "streaming", "waiting"}

\* The message loop of client c is at `message = await websocket.receive()`:
\* handle_message is awaited by the loop, so the loop is there only when the
\* handler of the message before has returned.
AwaitingMessage(c) == task[c].pc = "receive"

\* The message types that ask for a generated response, as the handlers see
\* them: generate_response_stream with streaming on ("stream") or with
\* enable_streaming false ("fallback"), and generate_response ("plain").
RequestKinds == {"stream", "fallback", "plain"}

ValidationError(req) == [type |-> "error", text |-> <<"no text">>, req |-> req]

AIResponse(text, req) == [type |-> "ai_response", text |-> text, req |-> req]

\* The endpoint receives one generation request and runs its handler up to
\* the first point where it suspends: websocket.receive, handle_message,
\* handle_generate_response_stream or handle_generate_response, and in them
\* generate_response_stream or generate_response up to the call of the
\* generation collaborator.
Receive(c, via, text, tts) ==
    LET req == requests + 1
        t0 == [task[c] EXCEPT !.req = req, !.via = via, !.tts = tts,
                              !.frags = <<>>, !.full = NoText, !.yielded = <<>>,
                              !.ended = FALSE, !.outcome = "none",
                              \* detected_language = context.get('language', 'auto')
                              !.language = "auto", !.response = NoReply,
                              !.prompt = <<>>, !.mine = @ \cup {req},
                              !.saved = NoSaves]
        r == check_rate_limit(client_buckets, global_bucket, c, now)
        retry_after == get_retry_after(With(client_buckets, c, r.cbucket), c)
        \* the peer has read what was delivered to it before it asks again
        fresh == [ws_sent EXCEPT ![task[c].sock] = <<>>]
    IN
    /\ AwaitingMessage(c)
    /\ ws_state[task[c].sock] = "open"
    /\ c \in DOMAIN active_connections
    /\ requests < MaxRequests
    /\ requests' = req
    /\ IF text = NoText
       THEN \* 'No text provided' / validate_required_fields
            /\ HandlerSend(c, fresh, ValidationError(req), [t0 EXCEPT !.outcome = "rejected"],
                           "rejected", ExceptDepth(via, FALSE))
            /\ UNCHANGED <<memory, rlVars>>
       ELSE /\ Charged(c, r)
            /\ IF ~r.result
               THEN /\ UNCHANGED memory
                    /\ IF via = "stream"
                       THEN LET e == ErrorEvent(RateLimitText, req) IN
                            HandlerSend(c, fresh, forward(e),
                                        [t0 EXCEPT !.yielded = <<e>>, !.outcome = "denied",
                                                   !.response =
                                                      rate_limit_reply(TRUE, "auto", retry_after)],
                                        "denied", ExceptDepth(via, FALSE))
                       ELSE HandlerSend(c, fresh, AIResponse(RateLimitText, req),
                                        [t0 EXCEPT !.full = RateLimitText,
                                                   !.outcome = "denied",
                                                   !.response =
                                                      rate_limit_reply(FALSE, "auto", retry_after),
                                                   !.pc = IF tts THEN "synth" ELSE "receive"],
                                        "denied", ExceptDepth(via, FALSE))
               ELSE \* conversation_memory.add_message("user", user_input)
                    /\ memory' = [memory EXCEPT !["speech"] =
                                     memory_add_message(@, "user", text, req)]
                    /\ task' = [task EXCEPT ![c] =
                                  [t0 EXCEPT !.outcome = "generating",
                                             !.prompt = build_context(memory'["speech"]),
                                             !.started = now,
                                             !.language = detect_user_language(text),
                                             !.pc = IF via = "stream" THEN "streaming"
                                                    ELSE "waiting"]]
                    /\ ws_sent' = fresh
                    /\ UNCHANGED <<active_connections, ws_tried, cm_last, sessions, sm_last>>
    /\ UNCHANGED <<ws_state, issued, sm_swept, clockVars, bcVars, spVars>>

\* What the collaborator may yield as the k-th fragment of a response: the
\* fragment may also be a run of Japanese characters.
ResponseFragments(k) == Fragments(k) \cup {JapaneseText}

\* What only this step leaves alone besides the task, the websockets and
\* the endpoint's cleanup.
StreamFrame == <<ws_state, issued, sm_swept, requests, clockVars, bcVars, rlVars, spVars>>

\* generate_response_stream pulls the next fragment f from response_stream;
\* a non-empty one is added to full_response and yielded as a 'chunk', which
\* the handler sends as ai_response_chunk.  The loop is a plain for loop:
\* an empty fragment is skipped without suspending.
StreamFragment(c, f) ==
    LET t == task[c]
        t1 == [t EXCEPT !.frags = Append(@, f)]
        e == ChunkEvent(f, t.req)
    IN
    /\ t.pc = "streaming"
    /\ Len(t.frags) < MaxFrags
    /\ f \in ResponseFragments(Len(t.frags) + 1)
    /\ IF f = NoText
       THEN /\ task' = [task EXCEPT ![c] = t1]
            /\ UNCHANGED <<cmVars, sessions, sm_last>>
       ELSE HandlerSend(c, ws_sent, forward(e),
                        [t1 EXCEPT !.full = accumulate(@, f), !.yielded = Append(@, e)],
                        "cancelled", ExceptDepth(t.via, FALSE))
    /\ UNCHANGED <<memory, StreamFrame>>

\* The responder a handler module calls: web_speech_handler has its own
\* BilingualAIResponder, the handlers of speech_handler share the other.
ResponderOf(via) == IF via = "webspeech" THEN "web_speech" ELSE "speech"

\* response_stream is exhausted: the assistant message goes to memory, the
\* TTS command is built, 'final' is yielded and sent as ai_response_final.
\* handle_web_speech_result then saves the conversation and calls
\* update_context on the SessionManager of its module, which holds no
\* session and returns False.
StreamEnd(c) ==
    LET t == task[c]
        e == FinalEvent(t.full, t.req)
    IN
    /\ t.pc = "streaming"
    /\ memory' = [memory EXCEPT ![ResponderOf(t.via)] =
                     memory_add_message(@, "assistant", t.full, t.req)]
    /\ HandlerSend(c, ws_sent, forward(e),
                   [t EXCEPT !.ended = TRUE, !.yielded = Append(@, e),
                             !.outcome = "completed",
                             \* handle_web_speech_result, once 'final' went out
                             !.saved = IF t.via = "webspeech" /\ ws_state[t.sock] = "open"
                                       THEN save_conversation(@) ELSE @,
                             !.response =
                                Reply(t.full, response_language(t.full, t.language), TRUE,
                                      [user_language |-> t.language, is_final |-> TRUE]),
                             !.pc = IF t.tts THEN "synth" ELSE "receive"],
                   "cancelled", ExceptDepth(t.via, FALSE))
    /\ UNCHANGED StreamFrame

\* The generation collaborator raises, when the stream is opened or when a
\* fragment is pulled: the outer except clause yields 'error' with the
\* fallback text, which the handler sends as error.
StreamError(c) ==
    LET t == task[c]
        fallback_response == get_fallback_response(t.language)
        e == ErrorEvent(fallback_response, t.req)
    IN
    /\ t.pc = "streaming"
    /\ HandlerSend(c, ws_sent, forward(e),
                   [t EXCEPT !.yielded = Append(@, e), !.outcome = "failed",
                             !.response =
                                Reply(fallback_response, t.language, FALSE,
                                      [error |-> "error", fallback |-> TRUE,
                                       is_final |-> TRUE]),
                             !.pc = "receive"],
                   "failed", ExceptDepth(t.via, FALSE))
    /\ UNCHANGED <<memory, StreamFrame>>

\* str.strip(): the text without its leading and trailing blanks
strip(text) ==
    LET solid == {i \in 1..Len(text) : text[i] # " "} IN
    IF solid = {} THEN NoText
    ELSE SubSeq(text, CHOOSE i \in solid : \A j \in solid : i <= j,
                      CHOOSE i \in solid : \A j \in solid : i >= j)

\* What the awaited generate_content call of generate_response comes back
\* with: a response text, or one of the three exceptions the method catches.
RawResponses == {<<"R", " ">>, <<" ">>}

Failures == {"timeout", "blocked", "error"}

Results ==
    {[raised |-> "none", text |-> x] : x \in RawResponses}
      \cup {[raised |-> f, text |-> NoText] : f \in Failures}

\* the text generate_response returns after the failure
FailureText(failure, detected_language) ==
    CASE failure = "timeout" -> <<"timed out">>
      [] failure = "blocked" -> <<"content filters">>
      [] OTHER -> get_fallback_response(detected_language)

\* metadata['error'] after the failure
FailureKind(failure) ==
    CASE failure = "timeout" -> "timeout"
      [] failure = "blocked" -> "content_filtered"
      [] OTHER -> "error"

\* generate_response after the collaborator call, and the ai_response
\* message of handle_generate_response
PlainResult(c, result) ==
    LET t == task[c]
        failed == result.raised # "none"
        response_text == IF failed THEN FailureText(result.raised, t.language)
                         ELSE strip(result.text)
        response ==
            IF failed
            THEN Reply(response_text, t.language, FALSE,
                       [error |-> FailureKind(result.raised), fallback |-> TRUE])
            ELSE Reply(response_text, response_language(response_text, t.language), TRUE,
                       [user_language |-> t.language])
    IN
    /\ t.pc = "waiting"
    /\ memory' = IF failed THEN memory
                 ELSE [memory EXCEPT !["speech"] =
                          memory_add_message(@, "assistant", response_text, t.req)]
    /\ HandlerSend(c, ws_sent, AIResponse(response_text, t.req),
                   [t EXCEPT !.full = response_text,
                             !.response = response,
                             !.outcome = IF failed THEN "failed" ELSE "completed",
                             !.pc = IF t.tts THEN "synth" ELSE "receive"],
                   IF failed THEN "failed" ELSE "cancelled", ExceptDepth(t.via, FALSE))
    /\ UNCHANGED StreamFrame

TTSCommand(text, req) == [type |-> "tts_command", text |-> text, req |-> req]

SynthesisError(req) == [type |-> "error", text |-> <<"no text for synthesis">>, req |-> req]

\* handle_synthesize_speech, called by the handler after the response went out
Synthesize(c) ==
    LET t == task[c] IN
    /\ t.pc = "synth"
    /\ HandlerSend(c, ws_sent, IF t.full = NoText THEN SynthesisError(t.req)
                      ELSE TTSCommand(t.full, t.req),
                   [t EXCEPT !.pc = "receive"], t.outcome, ExceptDepth(t.via, TRUE))
    /\ UNCHANGED <<memory, StreamFrame>>

\* websocket.receive() returns websocket.disconnect: the loop breaks and the
\* finally clause runs.
ReceiveDisconnect(c) ==
    /\ AwaitingMessage(c)
    /\ ws_state[task[c].sock] = "dropped"
    /\ task' = [task EXCEPT ![c].pc = "closed"]
    /\ Finally(c)
    /\ UNCHANGED <<ws_sent, ws_tried, memory, StreamFrame>>

\* The timestamp field of a ping message; NoTimestamp when it has none.
NoTimestamp == "absent"

Timestamps == {"T0", NoTimestamp}

\* A handler that stamps the pong with its own clock.
handle_ping_now(timestamp, t) ==
    [type |-> "pong", text |-> NoText, req |-> 0, timestamp |-> ToString(t)]

\* ControlHandler.handle_ping: the pong message
handle_ping(timestamp, t) ==
    [type |-> "pong", text |-> NoText, req |-> 0,
     timestamp |-> IF timestamp = NoTimestamp THEN ToString(t) ELSE timestamp]

\* the pongs among the messages delivered to websocket w
Pongs(w) == SelectSeq(ws_sent[w], LAMBDA m : m.type = "pong")

\* The endpoint receives a ping and handle_message routes it to handle_ping.
\* handle_ping has no try block: a send that raises ends the message loop.
Ping(c, timestamp) ==
    LET w == task[c].sock
        r == send_json(ws_state, ws_sent, ws_tried, w, handle_ping(timestamp, now))
    IN
    /\ AwaitingMessage(c)
    /\ ws_state[w] = "open"
    /\ c \in DOMAIN active_connections
    /\ Len(Pongs(w)) < MaxPings
    /\ ws_sent' = r.sent
    /\ ws_tried' = r.tried
    /\ IF r.raised
       THEN /\ task' = [task EXCEPT ![c].pc = "closed"]
            /\ Finally(c)
       ELSE UNCHANGED <<task, active_connections, cm_last, sessions, sm_last>>
    /\ UNCHANGED <<memory, StreamFrame>>

(***************************************************************************)
(* The clock                                                               *)
(***************************************************************************)
\* d seconds pass.
Advance(d) ==
    /\ advances < MaxAdvances
    /\ advances' = advances + 1
    /\ now' = now + d
    /\ rl_run' = NoRuns
    /\ UNCHANGED <<client_buckets, global_bucket, rl_last, calls, smVars, spVars,
                   cmVars, orVars, bcVars>>

\* The type tags handle_message has a handler for.
HandlerTypes ==
    {"speech_recognition", "web_speech_result", "speech_error", "language_change",
     "generate_response", "generate_response_stream", "synthesize_speech",
     "tts_status", "tts_command", "extract_vocabulary", "save_vocabulary",
     "highlight_vocabulary", "ping", "language_preference", "reset_context",
     "config_update", "obs_command", "session_command"}

\* Text frames no handler is chosen for: a text that is not JSON, JSON that
\* is not an object, and objects whose type tag is not registered or absent
\* (message.get('type') is None).
NotJSON == [kind |-> "invalid", type |-> "None"]

NotObject == [kind |-> "array", type |-> "None"]

UnknownTypes == {"bogus", "start_recording", "stop_recording", "None"}

StrayFrames == {NotJSON, NotObject} \cup {[kind |-> "object", type |-> x] : x \in UnknownTypes}

\* An endpoint that answers an unregistered type without naming it.
unknown_type_error_bare(msg_type, req) ==
    [type |-> "error", text |-> <<"Unknown message type: ">>, req |-> req]

\* handle_message: the reply to a type tag that has no handler
unknown_type_error(msg_type, req) ==
    [type |-> "error", text |-> <<"Unknown message type: ", msg_type>>, req |-> req]

\* The endpoint receives a text frame that reaches no handler.
\* json.loads raising JSONDecodeError is logged and the loop goes on;
\* handle_message on a value that is not a dict raises AttributeError at
\* message.get, which the loop's except Exception answers with break; an
\* object with an unregistered type is answered with the error reply, and a
\* send that raises ends the loop as well.
ReceiveFrame(c, frame) ==
    LET req == requests + 1
        t0 == [task[c] EXCEPT !.req = req, !.via = "none", !.tts = FALSE,
                              !.frags = <<>>, !.full = NoText, !.yielded = <<>>,
                              !.ended = FALSE, !.outcome = "none",
                              !.language = "auto", !.response = NoReply,
                              !.prompt = <<>>, !.mine = @ \cup {req},
                              !.saved = NoSaves]
        fresh == [ws_sent EXCEPT ![task[c].sock] = <<>>]
    IN
    /\ AwaitingMessage(c)
    /\ ws_state[task[c].sock] = "open"
    /\ c \in DOMAIN active_connections
    /\ requests < MaxRequests
    /\ frame.kind = "object" => frame.type \notin HandlerTypes
    /\ requests' = req
    /\ CASE frame.kind = "invalid" ->
              /\ task' = [task EXCEPT ![c] = [t0 EXCEPT !.outcome = "ignored"]]
              /\ ws_sent' = fresh
              /\ UNCHANGED <<active_connections, ws_tried, cm_last, sessions, sm_last>>
         [] frame.kind = "array" ->
              /\ task' = [task EXCEPT ![c] = [t0 EXCEPT !.outcome = "crashed",
                                                        !.pc = "closed"]]
              /\ ws_sent' = fresh
              /\ ws_tried' = ws_tried
              /\ Finally(c)
         [] OTHER ->
              HandlerSend(c, fresh, unknown_type_error(frame.type, req),
                          [t0 EXCEPT !.outcome = "unknown"], "unknown", 0)
    /\ UNCHANGED <<memory, ws_state, issued, sm_swept, clockVars, bcVars, rlVars, spVars>>

\* The sessions of web_speech_handler.session_manager, the SessionManager
\* the module makes for itself: create_session is never called on it, so
\* its get_context gives the default context and its update_context
\* returns False; the sessions the endpoint creates are in another object.
WebSpeechSessions == <<>>

\* The data of a web_speech_result message: the transcript ("" when it is
\* missing or empty), isFinal, and a confidence and a language.
Transcripts == {"", "hi"}

Confidence == 90

BrowserLanguage == "ja-JP"

\* the transcript as the text given to the responder
TextOf(transcript) == IF transcript = "" THEN NoText ELSE <<transcript>>

\* A confirmation that leaves the confidence out.
transcription_confirmed_bare(transcript, language, confidence, req) ==
    [type |-> "transcription_confirmed", text |-> TextOf(transcript), req |-> req,
     language |-> language]

\* handle_web_speech_result: the transcription_confirmed message
transcription_confirmed(transcript, language, confidence, req) ==
    [type |-> "transcription_confirmed", text |-> TextOf(transcript), req |-> req,
     language |-> language, confidence |-> confidence]

\* The endpoint receives speech_recognition or web_speech_result and
\* handle_web_speech_result runs up to the call of the generation
\* collaborator: an empty transcript returns at once; an interim result goes
\* to add_interim_transcript; a final result goes to add_final_transcript,
\* transcription_confirmed is sent, and generate_response_stream of the
\* module's responder starts (STREAM_ENABLED is True): the rate-limit check,
\* which when it refuses yields the 'error' event the handler sends, and the
\* user message added to the memory.
WebSpeechResult(c, transcript, is_final) ==
    LET req == requests + 1
        w == task[c].sock
        text == TextOf(transcript)
        t0 == [task[c] EXCEPT !.req = req, !.via = "webspeech", !.tts = FALSE,
                              !.frags = <<>>, !.full = NoText, !.yielded = <<>>,
                              !.ended = FALSE, !.outcome = "none",
                              !.language = "auto", !.response = NoReply,
                              !.prompt = <<>>, !.mine = @ \cup {req},
                              !.saved = NoSaves]
        fresh == [ws_sent EXCEPT ![w] = <<>>]
        interim == add_interim_transcript(speech_sessions, c, transcript, now)
        final == add_final_transcript(speech_sessions, c, transcript, Confidence,
                                      BrowserLanguage, now)
        confirmed == send_json(ws_state, fresh, ws_tried, w,
                               transcription_confirmed(transcript, BrowserLanguage,
                                                       Confidence, req))
        r == check_rate_limit(client_buckets, global_bucket, c, now)
        retry_after == get_retry_after(With(client_buckets, c, r.cbucket), c)
        e == ErrorEvent(RateLimitText, req)
    IN
    /\ AwaitingMessage(c)
    /\ ws_state[w] = "open"
    /\ c \in DOMAIN active_connections
    /\ requests < MaxRequests
    /\ requests' = req
    /\ IF transcript = ""
       THEN /\ task' = [task EXCEPT ![c] = [t0 EXCEPT !.outcome = "ignored"]]
            /\ ws_sent' = fresh
            /\ UNCHANGED <<active_connections, ws_tried, cm_last, sessions, sm_last,
                           memory, rlVars, spVars>>
       ELSE IF ~is_final
       THEN /\ speech_sessions' = interim.sessions
            /\ sp_last' = SpeechCall("add_interim_transcript", c, interim.found,
                                     NoSpeechCall.record)
            /\ task' = [task EXCEPT ![c] = [t0 EXCEPT !.outcome = "interim"]]
            /\ ws_sent' = fresh
            /\ UNCHANGED <<active_connections, ws_tried, cm_last, sessions, sm_last,
                           memory, rlVars>>
       ELSE /\ speech_sessions' = final.sessions
            /\ sp_last' = SpeechCall("add_final_transcript", c, final.found,
                                     FinalRecord(transcript, Confidence, BrowserLanguage, now))
            /\ Charged(c, r)
            /\ IF ~r.result
               THEN /\ UNCHANGED memory
                    /\ HandlerSend(c, confirmed.sent, forward(e),
                                   [t0 EXCEPT !.yielded = <<e>>, !.outcome = "denied",
                                              !.response =
                                                 rate_limit_reply(TRUE, "auto", retry_after)],
                                   "denied", ExceptDepth("webspeech", FALSE))
               ELSE /\ memory' = [memory EXCEPT !["web_speech"] =
                                     memory_add_message(@, "user", text, req)]
                    /\ task' = [task EXCEPT ![c] =
                                  [t0 EXCEPT !.outcome = "generating",
                                             !.prompt = build_context(memory'["web_speech"]),
                                             !.started = now,
                                             !.language = detect_user_language(text),
                                             !.pc = "streaming"]]
                    /\ ws_sent' = confirmed.sent
                    /\ UNCHANGED <<active_connections, ws_tried, cm_last, sessions, sm_last>>
    /\ UNCHANGED <<ws_state, issued, sm_swept, clockVars, bcVars>>

\* The methods class SessionManager defines.
SessionManagerMethods ==
    {"create_session", "get_session", "update_context", "get_context",
     "set_preference", "reset_context", "end_session", "cleanup_expired_sessions"}

\* SpeechRecognitionManager.get_session_stats: {} for a client without
\* speech session
speech_get_session_stats(sess, c, t) ==
    IF c \notin DOMAIN sess THEN <<>>
    ELSE [client_id |-> c, language |-> sess[c].language, is_active |-> sess[c].is_active,
          duration_seconds |-> IF sess[c].is_active THEN t - sess[c].started_at
                               ELSE sess[c].total_duration,
          recognition_count |-> sess[c].recognition_count,
          error_count |-> sess[c].error_count,
          last_activity |-> sess[c].last_activity,
          transcript_history_length |-> Len(sess[c].final_transcripts)]

SessionCommands == {"start_session", "end_session", "get_session_info", "None"}

\* handle_session_command: the message the handler sends for a command.
\* get_session_info looks up session_manager.get_session_stats, a method
\* SessionManager does not define: the AttributeError is caught by the
\* handler's except clause, which sends 'error'.
session_command_reply(command, c, ended, t, req) ==
    CASE command = "start_session" ->
            [type |-> "session_started", text |-> NoText, req |-> req, client_id |-> c]
      [] command = "end_session" ->
            [type |-> "session_ended", text |-> NoText, req |-> req, client_id |-> c,
             stats |-> IF ended.found
                       THEN [speech_duration |-> ended.sessions[c].total_duration,
                             recognitions |-> ended.sessions[c].recognition_count,
                             errors |-> ended.sessions[c].error_count]
                       ELSE <<>>]
      [] command = "get_session_info" ->
            IF "get_session_stats" \in SessionManagerMethods
            THEN [type |-> "session_info", text |-> NoText, req |-> req, client_id |-> c,
                  speech_stats |-> speech_get_session_stats(speech_sessions, c, t),
                  session_stats |-> <<>>]
            ELSE [type |-> "error", text |-> <<"Session command error: ", "AttributeError">>,
                  req |-> req]
      [] OTHER ->
            [type |-> "error", text |-> <<"Unknown session command: ", command>>,
             req |-> req]

\* The endpoint receives session_command and handle_message routes it to
\* ControlHandler.handle_session_command.
SessionCommand(c, command) ==
    LET req == requests + 1
        t0 == [task[c] EXCEPT !.req = req, !.via = "session_command", !.tts = FALSE,
                              !.frags = <<>>, !.full = NoText, !.yielded = <<>>,
                              !.ended = FALSE, !.outcome = command,
                              !.language = "auto", !.response = NoReply,
                              !.prompt = <<>>, !.mine = @ \cup {req},
                              !.saved = NoSaves]
        fresh == [ws_sent EXCEPT ![task[c].sock] = <<>>]
        ended == speech_end_session(speech_sessions, c, now)
    IN
    /\ AwaitingMessage(c)
    /\ ws_state[task[c].sock] = "open"
    /\ c \in DOMAIN active_connections
    /\ requests < MaxRequests
    /\ requests' = req
    /\ IF command = "end_session"
       THEN /\ speech_sessions' = ended.sessions
            /\ sp_last' = SpeechCall("end_session", c, ended.found, NoSpeechCall.record)
       ELSE UNCHANGED spVars
    /\ HandlerSend(c, fresh, session_command_reply(command, c, ended, now, req), t0,
                   "lost", 1)
    /\ UNCHANGED <<memory, ws_state, issued, sm_swept, clockVars, bcVars, rlVars>>

\* d seconds pass while generate_response waits in asyncio.wait_for: the
\* timer of wait_for fires before more than the timeout has passed.  The
\* await and the for loop of generate_response_stream have no timer.
GenerationAdvance(d) ==
    /\ \A c \in Clients :
          task[c].pc = "waiting" => now + d <= task[c].started + GenerationTimeout
    /\ Advance(d)

(***************************************************************************)
(* Initial state: module import (rate_limiter = RateLimiter(...))          *)
(***************************************************************************)
Init ==
    /\ now = 0
    /\ advances = 0
    /\ client_buckets = <<>>
    /\ global_bucket = GlobalBucket(0)
    /\ rl_last = NoCheck
    /\ rl_run = NoRuns
    /\ sessions = <<>>
    /\ issued = {}
    /\ sm_last = NoSessionCall
    /\ sm_swept = FALSE
    /\ speech_sessions = <<>>
    /\ sp_last = NoSpeechCall
    /\ active_connections = <<>>
    /\ ws_state = <<>>
    /\ ws_sent = <<>>
    /\ ws_tried = <<>>
    /\ cm_last = NoConnCall
    /\ memory = [r \in Responders |-> <<>>]
    /\ task = [c \in Clients |-> NoTask]
    /\ requests = 0
    /\ calls = [p \in Calls |-> NoCall]
    /\ bc = NoBroadcast

(***************************************************************************)
(* Rate limiter specification                                              *)
(***************************************************************************)
\* one second, one minute, and just over the sweep threshold
RateDurations == {1, SecondsPerMinute, InactiveThresholdMinutes * SecondsPerMinute + 1}

NextRateLimiter ==
    \/ \E c \in Clients : CheckRateLimit(c)
    \/ CleanupInactiveClients
    \/ \E d \in RateDurations : Advance(d)

SpecRateLimiter == Init /\ [][NextRateLimiter]_vars

(***************************************************************************)
(* Rate limiter specification with calls in progress together              *)
(***************************************************************************)
\* Between two awaits of a call other calls and the sweep may run and a
\* second may pass; the half hour of the sweep threshold passes only
\* between calls.
NextRateCalls ==
    \/ \E p \in Calls, c \in Clients : CallClient(p, c)
    \/ \E p \in Calls : CallGlobal(p)
    \/ \E p \in Calls : CallRefund(p)
    \/ CleanupInactiveClients
    \/ Advance(1)
    \/ InFlight = {} /\ Advance(InactiveThresholdMinutes * SecondsPerMinute + 1)

SpecRateCalls == Init /\ [][NextRateCalls]_vars

(***************************************************************************)
(* Session registry specification                                          *)
(***************************************************************************)
\* one second and one hour: ages of exactly the TTL and of a second more
SessionDurations == {1, SessionTTL}

PreferenceTypes == {"language"}

NextSession ==
    \/ CreateSession
    \/ \E id \in Clients : GetSession(id)
    \/ \E id \in Clients : GetContext(id)
    \/ \E id \in Clients : UpdateContext(id, <<"hello">>, <<"reply">>)
    \/ \E id \in Clients, p \in PreferenceTypes : SetPreference(id, p, "en-US")
    \/ \E id \in Clients : ResetContext(id)
    \/ \E id \in Clients : EndSession(id)
    \/ CleanupExpiredSessions
    \/ \E d \in SessionDurations : Advance(d)

SpecSession == Init /\ [][NextSession]_vars

(***************************************************************************)
(* Conversation history specification: turns of one and of several lines   *)
(***************************************************************************)
\* The texts of a turn as their lines: the f-string puts a text into the
\* history as it is, and split('\n') cuts it at every line break it holds.
UserInputs == {<<"hello">>}

AIResponses == {<<"reply">>, <<"reply", "more">>}

NextHistory ==
    \/ CreateSession
    \/ \E id \in Clients, user_input \in UserInputs, ai_response \in AIResponses :
          UpdateContext(id, user_input, ai_response)
    \/ \E id \in Clients : ResetContext(id)
    \/ \E d \in SessionDurations : Advance(d)

SpecHistory == Init /\ [][NextHistory]_vars

(***************************************************************************)
(* Speech-session registry specification                                   *)
(***************************************************************************)
\* just over the session timeout
SpeechDurations == {SpeechTimeoutMinutes * SecondsPerMinute + 1}

\* the clients that start recording; the others call without a session
Recording == {"c1"}

NextSpeech ==
    \/ \E c \in Recording : SpeechCreateSession(c, "ja-JP")
    \/ \E c \in Clients : UpdateSessionActivity(c)
    \/ \E c \in Clients : AddInterimTranscript(c, "konni")
    \/ \E c \in Clients : AddFinalTranscript(c, "konnichiwa", 95, "ja-JP")
    \/ \E c \in Clients : RecordError(c, "no-speech")
    \/ \E c \in Clients : SpeechEndSession(c)
    \/ CleanupInactiveSessions
    \/ \E d \in SpeechDurations : Advance(d)

SpecSpeech == Init /\ [][NextSpeech]_vars

(***************************************************************************)
(* Connection registry specification                                       *)
(***************************************************************************)
Pong == [type |-> "pong", text |-> <<>>, req |-> 0]

NextConn ==
    \/ \E c \in Clients : Connect(c)
    \/ \E c \in Clients : Disconnect(c)
    \/ \E c \in Clients : SendMessage(c, Pong)
    \/ \E w \in 1..MaxSockets : Drop(w)

SpecConn == Init /\ [][NextConn]_vars

(***************************************************************************)
(* Connection registry specification with a broadcast                      *)
(***************************************************************************)
\* Clients connect under ids that are not registered, so that the insertion
\* order of the dict is the order of the websocket numbers.
NextBroadcast ==
    \/ \E c \in Clients : c \notin DOMAIN active_connections /\ Connect(c)
    \/ \E c \in Clients : Disconnect(c)
    \/ \E w \in 1..MaxSockets : Drop(w)
    \/ Broadcast
    \/ BroadcastNext

SpecBroadcast == Init /\ [][NextBroadcast]_vars

(***************************************************************************)
(* Streaming orchestrator specification                                    *)
(***************************************************************************)
\* the session ids create_session hands out in this specification
Callers == {"c1"}

NextStream ==
    \/ \E c \in Callers : Accept(c)
    \/ \E c \in Clients, via \in RequestKinds, text \in {NoText, UserText}, tts \in BOOLEAN :
          Receive(c, via, text, tts)
    \/ \E c \in Clients, k \in 1..MaxFrags : \E f \in Fragments(k) : StreamFragment(c, f)
    \/ \E c \in Clients : StreamEnd(c)
    \/ \E c \in Clients : StreamError(c)
    \/ \E c \in Clients, result \in Results : PlainResult(c, result)
    \/ \E c \in Clients : Synthesize(c)
    \/ \E c \in Clients : ReceiveDisconnect(c)
    \/ \E w \in Sockets : Drop(w)

SpecStream == Init /\ [][NextStream]_vars

(***************************************************************************)
(* Control message specification: pings between plain requests             *)
(***************************************************************************)
NextControl ==
    \/ \E c \in Clients : Accept(c)
    \/ \E c \in Clients, timestamp \in Timestamps : Ping(c, timestamp)
    \/ \E c \in Clients : Receive(c, "plain", UserText, FALSE)
    \/ \E c \in Clients, result \in Results : PlainResult(c, result)
    \/ \E c \in Clients : ReceiveDisconnect(c)
    \/ \E w \in Sockets : Drop(w)

SpecControl == Init /\ [][NextControl]_vars

(***************************************************************************)
(* Orchestrator specification: replies in both modes and both languages,   *)
(* with the limiter also charged by the other responder                    *)
(***************************************************************************)
ReplyKinds == {"stream", "plain"}

NextReply ==
    \/ \E c \in Callers : Accept(c)
    \/ \E c \in Callers : CheckRateLimit(c)
    \/ \E c \in Clients, via \in ReplyKinds, text \in {UserText, JapaneseText} :
          Receive(c, via, text, FALSE)
    \/ \E c \in Clients, k \in 1..MaxFrags : StreamFragment(c, <<Symbol(k)>>)
    \/ \E c \in Clients : StreamEnd(c)
    \/ \E c \in Clients : StreamError(c)
    \/ \E c \in Clients, result \in Results : PlainResult(c, result)

SpecReply == Init /\ [][NextReply]_vars

(***************************************************************************)
(* Orchestrator specification: responses of mixed script                   *)
(***************************************************************************)
\* Responses that are Japanese for one third, for one half and as a whole,
\* one without Japanese and one of blanks; the streamed fragments build
\* the same texts.
MixedResponses ==
    {<<"konnichiwa", Symbol(2), Symbol(3)>>, <<"konnichiwa", Symbol(2)>>,
     <<"konnichiwa">>, <<Symbol(1)>>, <<" ">>}

NextLanguage ==
    \/ \E c \in Callers : Accept(c)
    \/ \E c \in Callers, via \in ReplyKinds, text \in {UserText, JapaneseText} :
          Receive(c, via, text, FALSE)
    \/ \E c \in Callers, k \in 1..MaxFrags :
          StreamFragment(c, IF k = 1 THEN JapaneseText ELSE <<Symbol(k)>>)
    \/ \E c \in Callers : StreamFragment(c, <<Symbol(1)>>)
    \/ \E c \in Callers : StreamEnd(c)
    \/ \E c \in Callers, x \in MixedResponses :
          PlainResult(c, [raised |-> "none", text |-> x])

SpecLanguage == Init /\ [][NextLanguage]_vars

(***************************************************************************)
(* Orchestrator specification with the clock                               *)
(***************************************************************************)
\* the clock is read once every timeout
GenerationDurations == {GenerationTimeout}

NextDeadline ==
    \/ \E c \in Callers : Accept(c)
    \/ \E c \in Clients, via \in ReplyKinds : Receive(c, via, UserText, FALSE)
    \/ \E c \in Clients, k \in 1..MaxFrags : StreamFragment(c, <<Symbol(k)>>)
    \/ \E c \in Clients : StreamEnd(c)
    \/ \E c \in Clients : StreamError(c)
    \/ \E c \in Clients, result \in Results : PlainResult(c, result)
    \/ \E d \in GenerationDurations : GenerationAdvance(d)

SpecDeadline == Init /\ [][NextDeadline]_vars

(***************************************************************************)
(* Conversation memory specification                                       *)
(***************************************************************************)
NextMemory ==
    \E role \in Roles, content \in {UserText, JapaneseText} : AddMessage(role, content)

SpecMemory == Init /\ [][NextMemory]_vars

(***************************************************************************)
(* Orchestrator specification with two connections                         *)
(***************************************************************************)
NextShared ==
    \/ \E c \in Clients : Accept(c)
    \/ \E c \in Clients : Receive(c, "plain", UserText, FALSE)
    \/ \E c \in Clients, result \in Results : PlainResult(c, result)

SpecShared == Init /\ [][NextShared]_vars

(***************************************************************************)
(* Dispatch specification: frames of every kind between plain requests     *)
(***************************************************************************)
NextDispatch ==
    \/ \E c \in Clients : Accept(c)
    \/ \E c \in Clients, frame \in StrayFrames : ReceiveFrame(c, frame)
    \/ \E c \in Clients, command \in SessionCommands : SessionCommand(c, command)
    \/ \E c \in Clients : Receive(c, "plain", UserText, FALSE)
    \/ \E c \in Clients, result \in Results : PlainResult(c, result)
    \/ \E c \in Clients : ReceiveDisconnect(c)
    \/ \E w \in Sockets : Drop(w)

SpecDispatch == Init /\ [][NextDispatch]_vars

(***************************************************************************)
(* Web speech specification: speech results and generation requests        *)
(***************************************************************************)
NextWebSpeech ==
    \/ \E c \in Callers : Accept(c)
    \/ \E c \in Callers : CheckRateLimit(c)
    \/ \E c \in Callers, transcript \in Transcripts, is_final \in BOOLEAN :
          WebSpeechResult(c, transcript, is_final)
    \/ \E c \in Callers, via \in {"stream", "plain"} : Receive(c, via, NoText, FALSE)
    \/ \E c \in Callers : Receive(c, "stream", UserText, FALSE)
    \/ \E c \in Callers, k \in 1..MaxFrags : StreamFragment(c, <<Symbol(k)>>)
    \/ \E c \in Callers : StreamEnd(c)
    \/ \E c \in Callers : StreamError(c)
    \/ \E w \in Sockets : Drop(w)
    \/ \E c \in Callers : ReceiveDisconnect(c)

SpecWebSpeech == Init /\ [][NextWebSpeech]_vars

(***************************************************************************)
(* Claims: rate limiter                                                    *)
(***************************************************************************)
TokenBounds(b) == 0 <= b.tokens /\ b.tokens <= BucketLimit(b)

RefundCase ==
    /\ rl_last.client # NoClient
    /\ rl_last.client_allowed
    /\ ~rl_last.global_allowed

\* C1: every TokenBucket, the global one and each client's, holds between 0
\* and capacity + burst_size tokens in every reachable state.
C1_TokensWithinBounds ==
    /\ TokenBounds(global_bucket)
    /\ \A c \in DOMAIN client_buckets : TokenBounds(client_buckets[c])

\* A refund was made to a bucket that the lazy refill had brought to its limit.
C1_Witness ==
    /\ RefundCase
    /\ rl_last.client \in DOMAIN client_buckets
    /\ client_buckets[rl_last.client].tokens = BucketLimit(client_buckets[rl_last.client])
    /\ global_bucket.tokens < TokenUnit

\* C2: check_rate_limit returns True exactly when, after the lazy refill, both
\* the client's bucket and the global bucket hold at least one token; an
\* admitted call takes exactly one token from each; n admitted calls in a row
\* with no elapsed time lower the client's tokens by exactly n, never below 0.
C2_AdmittedIffBothHaveToken ==
    /\ rl_last.client # NoClient =>
         /\ rl_last.result <=> (rl_last.cref >= TokenUnit /\ rl_last.gref >= TokenUnit)
         /\ rl_last.result =>
              /\ rl_last.cpost = rl_last.cref - TokenUnit
              /\ rl_last.gpost = rl_last.gref - TokenUnit
    /\ \A c \in Clients :
         rl_run[c].n > 0 =>
           /\ c \in DOMAIN client_buckets
           /\ client_buckets[c].tokens = rl_run[c].start - rl_run[c].n * TokenUnit
           /\ client_buckets[c].tokens >= 0

\* Two admitted calls in a row for one client.
C2_Witness ==
    /\ rl_last.client # NoClient
    /\ rl_last.result
    /\ rl_run[rl_last.client].n >= 2

\* C3: when a call is denied only because the global bucket is exhausted, the
\* client's bucket holds after the call what it held before it (after the
\* refill; with no elapsed time, what it held), so a consume of one token
\* that would have succeeded before still succeeds.
C3_RefundIsExact ==
    RefundCase =>
      /\ rl_last.cpost = rl_last.cref
      /\ rl_last.elapsed = 0 => rl_last.cpost = rl_last.cpre
      /\ rl_last.cpost >= TokenUnit
      /\ rl_last.result = FALSE

\* A refund to a bucket that existed and was last touched at this very time.
C3_Witness ==
    /\ RefundCase
    /\ rl_last.existed
    /\ rl_last.elapsed = 0
    /\ rl_last.cpre < BucketLimit(ClientBucket(0))

(***************************************************************************)
(* Claims: speech-session registry                                         *)
(***************************************************************************)
\* C8: add_final_transcript clears interim_transcript and appends one record
\* to final_transcripts in one atomic step: no step makes a new final record
\* visible while the interim transcript stays non-empty, and after the call
\* interim_transcript is "" and recognition_count has risen by 1.
C8_FinalClearsInterimAtomically ==
    [][\A c \in Clients :
         (/\ c \in DOMAIN speech_sessions
          /\ c \in DOMAIN speech_sessions'
          /\ \/ speech_sessions'[c].final_transcripts # speech_sessions[c].final_transcripts
             \/ speech_sessions'[c].recognition_count # speech_sessions[c].recognition_count)
         =>
         /\ sp_last'.op = "add_final_transcript"
         /\ sp_last'.id = c
         /\ speech_sessions'[c].interim_transcript = ""
         /\ speech_sessions'[c].recognition_count = speech_sessions[c].recognition_count + 1
         /\ speech_sessions'[c].final_transcripts =
              LastN(Append(speech_sessions[c].final_transcripts, sp_last'.record),
                    TranscriptCap)]_vars

\* A final transcript was added to a session whose interim transcript was
\* pending.
C8_Witness ==
    /\ sp_last.op = "add_final_transcript"
    /\ sp_last.found
    /\ sp_last.interim # ""
    /\ speech_sessions[sp_last.id].interim_transcript = ""
    /\ speech_sessions[sp_last.id].recognition_count >= 1
    /\ Len(speech_sessions[sp_last.id].final_transcripts) >= 1

(***************************************************************************)
(* Claims: session registry                                                *)
(***************************************************************************)
SessionAccessors ==
    {"get_session", "get_context", "update_context", "set_preference", "reset_context"}

\* C9: get_session returns a session while its age (from creation) is within
\* the TTL and, once it is older, deletes it and returns not-found on that
\* very access; get_context, update_context, set_preference and
\* reset_context then treat it as absent and touch no other session.
C9_LazyExpiryOnAccess ==
    (sm_last.op \in SessionAccessors /\ sm_last.existed) =>
      /\ ~sm_last.overdue => (sm_last.result /\ sm_last.id \in DOMAIN sessions)
      /\ sm_last.overdue =>
           (~sm_last.result /\ sm_last.id \notin DOMAIN sessions /\ sm_last.frame)

\* An untouched session older than the TTL was looked up before any sweep ran.
C9_Witness ==
    /\ sm_last.op = "get_session"
    /\ sm_last.existed
    /\ sm_last.untouched
    /\ sm_last.overdue
    /\ ~sm_swept
    /\ ~sm_last.result
    /\ sm_last.id \notin DOMAIN sessions

(***************************************************************************)
(* Claims: connection registry                                             *)
(***************************************************************************)
\* C10: disconnect for a client that is already unregistered (a second
\* disconnect), like any disconnect, does not raise and leaves no entry for
\* the client; send_message to a client that is not registered does not
\* raise, sends nothing and creates no entry.
C10_UnregisterIdempotent ==
    /\ cm_last.op = "disconnect" =>
         /\ ~cm_last.raised
         /\ cm_last.id \notin DOMAIN active_connections
         /\ ~cm_last.existed => ~cm_last.changed
    /\ (cm_last.op = "send_message" /\ ~cm_last.existed) =>
         /\ ~cm_last.raised
         /\ cm_last.id \notin DOMAIN active_connections
         /\ ~cm_last.changed

\* The second of two disconnects in a row of a client that had been connected.
C10_Witness ==
    /\ cm_last.op = "disconnect"
    /\ cm_last.again
    /\ ~cm_last.existed
    /\ Cardinality(Sockets) >= 1
    /\ active_connections = <<>>

(***************************************************************************)
(* Claims: streaming orchestrator                                          *)
(***************************************************************************)
\* f1 + ... + fn
Concat(texts) ==
    LET RECURSIVE Cat(_)
        Cat(ts) == IF ts = <<>> THEN NoText ELSE Head(ts) \o Cat(Tail(ts))
    IN Cat(texts)

\* one 'chunk' per non-empty fragment, in the order of the fragments
ChunksOf(frags, req) ==
    LET solid == SelectSeq(frags, LAMBDA f : f # NoText)
    IN [i \in 1..Len(solid) |-> ChunkEvent(solid[i], req)]

\* the chunk and final messages of client c's request that reached its
\* websocket, in the order they were delivered
Delivered(c) ==
    SelectSeq(ws_sent[task[c].sock],
              LAMBDA m : m.req = task[c].req
                         /\ m.type \in {"ai_response_chunk", "ai_response_final"})

\* the chunk and final events the generator yielded, as the messages they
\* are due on the connection
Due(c) ==
    LET evs == SelectSeq(task[c].yielded, LAMBDA e : e.type \in {"chunk", "final"})
    IN [i \in 1..Len(evs) |->
          [type |-> IF evs[i].type = "chunk" THEN "ai_response_chunk"
                    ELSE "ai_response_final",
           text |-> evs[i].text, req |-> evs[i].req]]

IsPrefix(a, b) == Len(a) <= Len(b) /\ SubSeq(b, 1, Len(a)) = a

Streams == {c \in Clients : task[c].via = "stream" /\ task[c].yielded # <<>>}

\* C4: a response stream that ran through its fragments f1..fn has yielded
\* one 'chunk' per non-empty fragment, in order, and then exactly one 'final'
\* whose text is f1 + ... + fn, with no chunk after it; while it runs the
\* chunks so far are those of the fragments so far and there is no final;
\* the connection is handed these events in that order: what it received is
\* a prefix of them, and all of them once the request completed.
C4_ChunksInOrderThenFinal ==
    \A c \in Streams :
        LET t == task[c] IN
        /\ t.ended =>
             t.yielded = ChunksOf(t.frags, t.req)
                           \o <<FinalEvent(Concat(t.frags), t.req)>>
        /\ ~t.ended =>
             SelectSeq(t.yielded, LAMBDA e : e.type # "error") = ChunksOf(t.frags, t.req)
        /\ IsPrefix(Delivered(c), Due(c))
        /\ t.outcome = "completed" => Delivered(c) = Due(c)

\* A completed stream of three fragments, the second of them empty: two
\* chunks and the final reached the connection.
C4_Witness ==
    \E c \in Streams :
        /\ task[c].outcome = "completed"
        /\ task[c].ended
        /\ Len(task[c].frags) >= 3
        /\ task[c].frags[1] # NoText
        /\ task[c].frags[2] = NoText
        /\ task[c].frags[3] # NoText
        /\ Len(Delivered(c)) = 3

\* the messages request req left in any ConversationMemory
MessagesOf(req) ==
    {<<r, i>> \in Responders \X (1..(2 * WindowSize)) :
        i <= Len(memory[r]) /\ memory[r][i].req = req}

\* C5: when the connection was dropped while a streamed response was under
\* way, after at least one chunk was delivered and before the stream ended,
\* ConversationMemory holds no message of that request, neither the user
\* message nor response text.
C5_DropDiscardsPartialState ==
    \A c \in Clients :
        (/\ task[c].via = "stream"
         /\ task[c].outcome = "cancelled"
         /\ ~task[c].ended
         /\ Len(Delivered(c)) >= 1)
            => MessagesOf(task[c].req) = {}

\* C6: no ai_response_chunk and no ai_response_final is passed to the
\* websocket of a streamed request once its peer is gone.
C6_NoSendAfterDrop ==
    \A c \in Clients :
        task[c].via = "stream" =>
            \A i \in 1..Len(ws_tried[task[c].sock]) :
                ws_tried[task[c].sock][i].type
                    \notin {"ai_response_chunk", "ai_response_final"}

\* C7: after a request whose generation failed, in streaming or in
\* non-streaming mode, ConversationMemory holds no message of that request.
C7_FailureLeavesMemoryUnchanged ==
    \A c \in Clients :
        task[c].outcome = "failed" => MessagesOf(task[c].req) = {}

\* C12: get_retry_after(client) is 0 exactly when a check_rate_limit(client)
\* made at that moment would return True; in particular a caller that was
\* just denied is never told to retry after 0 seconds.
C12_RetryAfterZeroIffAdmittable ==
    /\ \A c \in Clients :
          get_retry_after(client_buckets, c) = 0
             <=> check_rate_limit(client_buckets, global_bucket, c, now).result
    /\ (rl_last.client # NoClient /\ ~rl_last.result)
          => get_retry_after(client_buckets, rl_last.client) > 0

\* the calls that hold a token of their client's bucket
HoldsClientToken(p) ==
    /\ calls[p].client_allowed
    /\ \/ p \in InFlight
       \/ calls[p].pc = "done" /\ calls[p].result

\* the calls that took a token of the global bucket
TookGlobalToken(p) == calls[p].global_allowed

\* C13: calls of check_rate_limit in progress together are serialized on each
\* bucket: no balance is negative, so the admitted calls never exceed the
\* tokens there were; while no time has passed every bucket holds its initial
\* balance less one token for each call that holds one, so no update is lost;
\* and a call that has started can always take its next step, whatever the
\* other calls, of the same client or another, are doing.
C13_CallsSerialize ==
    /\ global_bucket.tokens >= 0
    /\ \A c \in DOMAIN client_buckets : client_buckets[c].tokens >= 0
    /\ advances = 0 =>
         /\ global_bucket.tokens = GlobalBucket(0).tokens
               - TokenUnit * Cardinality({p \in Calls : TookGlobalToken(p)})
         /\ \A c \in DOMAIN client_buckets :
               client_buckets[c].tokens = ClientBucket(0).tokens
                  - TokenUnit * Cardinality({p \in Calls : /\ calls[p].client = c
                                                          /\ HoldsClientToken(p)})
    /\ \A p \in InFlight : ENABLED (CallGlobal(p) \/ CallRefund(p))

\* Two calls of one client are in progress together and a call was refused
\* by the client's bucket.
C13_Witness ==
    /\ advances = 0
    /\ \E p, q \in InFlight : p # q /\ calls[p].client = calls[q].client
    /\ \E p \in Calls : calls[p].pc # "idle" /\ ~calls[p].client_allowed

\* C14: the sweep never deletes the bucket of a client that has a call in
\* progress, and when such a call returns the registered bucket of its client
\* is the one it charged: it holds the refund when the global bucket refused
\* and is unchanged by the return otherwise.
C14_SweepSparesCallsInProgress ==
    [][/\ \A p \in InFlight :
             /\ calls[p].client \in DOMAIN client_buckets'
             /\ ~calls'[p].detached
       /\ \A p \in InFlight :
             calls'[p].pc = "done" =>
                LET c == calls[p].client IN
                client_buckets'[c].tokens =
                   IF calls[p].pc = "refund"
                   THEN Min(client_buckets[c].tokens + TokenUnit,
                            BucketLimit(client_buckets[c]))
                   ELSE client_buckets[c].tokens]_vars

\* A call is in progress, its client's bucket is registered, and the sweep
\* has deleted the bucket of a client whose call had returned.
C14_Witness ==
    /\ \E p \in InFlight : calls[p].client \in DOMAIN client_buckets
    /\ \E q \in Calls : calls[q].pc = "done" /\ calls[q].client \notin DOMAIN client_buckets

(***************************************************************************)
(* Claims: control messages                                                *)
(***************************************************************************)
\* C11: a ping is answered with exactly one pong that carries the ping's
\* timestamp, on the connection it came from, and the step changes nothing
\* else: no session, no speech session, no token bucket, no conversation
\* memory, no other connection.
C11_PingOnlyPongs ==
    [][\A c \in Clients, timestamp \in Timestamps \ {NoTimestamp} :
          Ping(c, timestamp) =>
             /\ ws_sent' = [ws_sent EXCEPT ![task[c].sock] =
                              Append(@, [type |-> "pong", text |-> NoText, req |-> 0,
                                         timestamp |-> timestamp])]
             /\ UNCHANGED <<sessions, speech_sessions, client_buckets, global_bucket,
                            memory, ws_tried, active_connections, task>>]_vars

\* A ping with timestamp T0 was answered while a session, a charged bucket
\* and a remembered message existed.
C11_Witness ==
    \E c \in Clients :
        /\ task[c].pc = "receive"
        /\ Len(Pongs(task[c].sock)) = 1
        /\ Pongs(task[c].sock)[1].timestamp = "T0"
        /\ c \in DOMAIN sessions
        /\ c \in DOMAIN client_buckets
        /\ memory["speech"] # <<>>

(***************************************************************************)
(* Claims: replies of the orchestrator                                     *)
(***************************************************************************)
\* the step receives a request with a text from c that the limiter refuses
Refused(c) ==
    /\ task'[c].req # task[c].req
    /\ task'[c].outcome # "rejected"
    /\ ~check_rate_limit(client_buckets, global_bucket, c, now).result

\* C15: a request that check_rate_limit refuses gets, in the step that
\* receives it, a reply whose metadata carries error 'rate_limit_exceeded'
\* and retry_after; the collaborator is not called for it, then or later, the
\* memory is unchanged and holds no message of it, and in streaming mode the
\* generator yields exactly one event, an 'error', and otherwise none.
C15_DenialGoesStraightToFailed ==
    [][\A c \in Clients :
          /\ Refused(c) =>
                /\ task'[c].outcome = "denied"
                /\ {"error", "retry_after"} \subseteq DOMAIN task'[c].response.metadata
                /\ task'[c].response.metadata.error = "rate_limit_exceeded"
                /\ memory' = memory
          /\ task'[c].outcome = "denied" =>
                /\ task'[c].pc \notin {"streaming", "waiting"}
                /\ task'[c].frags = <<>>
                /\ \A r \in Responders : \A i \in 1..Len(memory'[r]) :
                      memory'[r][i].req # task'[c].req
                /\ task'[c].yielded =
                      IF task'[c].via = "stream"
                      THEN <<ErrorEvent(RateLimitText, task'[c].req)>>
                      ELSE <<>>]_vars

\* A streaming request was refused after an earlier one had been admitted.
C15_Witness ==
    \E c \in Clients :
        /\ task[c].outcome = "denied"
        /\ task[c].via = "stream"
        /\ task[c].response.metadata.retry_after > 0
        /\ memory["speech"] # <<>>

\* C16: no admitted request, streaming or not, is still being generated
\* once more than the timeout has passed since its admission: by then it has
\* completed or has failed, with error 'timeout' if the collaborator had not
\* answered.
C16_GeneratingEndsByDeadline ==
    \A c \in Clients :
        task[c].outcome = "generating" => now - task[c].started <= GenerationTimeout

\* the language a text is written in
LanguageOf(text) == IF japanese_chars(text) > 0 THEN "ja-JP" ELSE "en-US"

\* C17: the reply to a request whose generation failed, by timeout, content
\* filter or any other exception, in either mode, has a non-empty text in the
\* language detected for the user, no tts_command, and metadata with 'error'
\* and 'fallback': true; the collaborator is not called again for it.
C17_FailureReplyIsLocalizedFallback ==
    \A c \in Clients :
        task[c].outcome = "failed" =>
            /\ task[c].response.text # NoText
            /\ LanguageOf(task[c].response.text) = task[c].language
            /\ ~task[c].response.tts_command
            /\ {"error", "fallback"} \subseteq DOMAIN task[c].response.metadata
            /\ task[c].response.metadata.fallback
            /\ task[c].pc \notin {"streaming", "waiting"}

\* the types of the messages client c's websocket was sent for its request
Answers(c) ==
    LET ms == SelectSeq(ws_sent[task[c].sock], LAMBDA m : m.req = task[c].req)
    IN [i \in 1..Len(ms) |-> ms[i].type]

\* C18: a request served without streaming that has been answered got no
\* chunk; when it completed it got exactly one response message, and when it
\* was refused by the limiter or its generation failed it got what the
\* streaming path sends in that case, one 'error' message and no response.
C18_PlainIsDegenerateStream ==
    \A c \in Clients :
        (task[c].via = "plain" /\ task[c].pc = "receive" /\ task[c].req > 0) =>
            /\ \A i \in 1..Len(Answers(c)) : Answers(c)[i] # "ai_response_chunk"
            /\ task[c].outcome = "completed" => Answers(c) = <<"ai_response">>
            /\ task[c].outcome \in {"denied", "failed"} => Answers(c) = <<"error">>

(***************************************************************************)
(* Claims: conversation memory                                             *)
(***************************************************************************)
\* C19: after any number of add_message calls the memory holds at most
\* 2 * window_size messages, and they are the most recently added ones in
\* the order they were added: the last min(n, 2 * window_size) of n calls.
C19_MemoryKeepsLatestWindow ==
    LET messages == memory["speech"]
        kept == Min(requests, 2 * WindowSize) IN
    /\ Len(messages) <= 2 * WindowSize
    /\ Len(messages) = kept
    /\ \A i \in 1..Len(messages) : messages[i].req = requests - kept + i

\* More messages were added than the memory holds.
C19_Witness ==
    /\ requests > 2 * WindowSize
    /\ Len(memory["speech"]) = 2 * WindowSize
    /\ memory["speech"][1].req > 1

\* C20: the conversation history in the prompt built for a client's request
\* holds only messages of requests of that client.
C20_PromptHoldsOwnTurnsOnly ==
    \A c \in Clients :
        \A i \in 1..Len(task[c].prompt) : task[c].prompt[i].req \in task[c].mine

(***************************************************************************)
(* Claims: transport and dispatch                                          *)
(***************************************************************************)
\* C21: a broadcast never raises to its caller, and when it has ended every
\* websocket that was registered when it began, is still registered and
\* whose peer is there has been sent the message, whatever happened to the
\* other connections meanwhile.
C21_BroadcastBestEffort ==
    /\ bc.pc # "raised"
    /\ bc.pc \in {"returned", "raised"} =>
          \A w \in bc.targets \cap Registered :
              ws_state[w] = "open" =>
                 \E i \in 1..Len(ws_sent[w]) : ws_sent[w][i] = BroadcastMessage

\* C22: no text frame ends the connection: the endpoint of a client leaves
\* its message loop only when the peer has gone away.
C22_NoFrameEndsConnection ==
    \A c \in Clients :
        task[c].pc = "closed" => ws_state[task[c].sock] = "dropped"

C26_RecordingMessagesRouted ==
    [][\A c \in Clients :
          LET m == ws_sent'[task[c].sock] IN
          /\ ReceiveFrame(c, [kind |-> "object", type |-> "start_recording"]) =>
                /\ Len(m) = 1
                /\ m[1].type \in {"recording_started", "error"}
                /\ m[1].type = "error" => m[1].text[1] # "Unknown message type: "
                /\ c \in DOMAIN speech_sessions'
                /\ speech_sessions'[c].is_active
          /\ ReceiveFrame(c, [kind |-> "object", type |-> "stop_recording"]) =>
                /\ Len(m) = 1
                /\ m[1].type = "recording_stopped"]_vars

\* C27: start_session is answered with session_started, end_session with
\* session_ended carrying stats, and get_session_info with exactly one
\* session_info carrying speech_stats and session_stats.
C27_SessionCommandReplies ==
    [][\A c \in Clients :
          LET m == ws_sent'[task[c].sock] IN
          /\ SessionCommand(c, "start_session") =>
                Len(m) = 1 /\ m[1].type = "session_started"
          /\ SessionCommand(c, "end_session") =>
                Len(m) = 1 /\ m[1].type = "session_ended" /\ "stats" \in DOMAIN m[1]
          /\ SessionCommand(c, "get_session_info") =>
                /\ Len(m) = 1
                /\ m[1].type = "session_info"
                /\ {"speech_stats", "session_stats"} \subseteq DOMAIN m[1]]_vars

\* C28: once the endpoint of a client has closed, the client has no entry
\* among the connections, the sessions, the speech sessions or the rate
\* limiter's client buckets, and no generation of it is in progress.
C28_CloseReleasesEverything ==
    \A c \in Clients :
        task[c].pc = "closed" =>
           /\ c \notin DOMAIN active_connections
           /\ c \notin DOMAIN sessions
           /\ c \notin DOMAIN speech_sessions
           /\ c \notin DOMAIN client_buckets
           /\ task[c].outcome # "generating"

(***************************************************************************)
(* Claims: sessions                                                        *)
(***************************************************************************)
\* C29: a session that was touched (turn, preference, reset) less than the
\* TTL ago is still there after an access or a sweep, whatever its age.
C29_ExpiryFromLastActivity ==
    [][\A id \in Clients :
          (/\ id \in DOMAIN sessions
           /\ now - sessions[id].updated_at < SessionTTL
           /\ GetSession(id) \/ GetContext(id) \/ CleanupExpiredSessions)
          => id \in DOMAIN sessions']_vars

\* C30: update_context on a session that is there adds 1 to turn_count and
\* leaves a history that ends with the new turn, has at most the window's
\* number of lines and is made of whole turns, so begins with a turn's
\* "User:" line; on a session that is not there it returns False and no
\* session changes.
C30_TurnsCountedAndWindowed ==
    [][\A id \in Clients, user_input \in UserInputs, ai_response \in AIResponses :
          UpdateContext(id, user_input, ai_response) =>
             IF sm_last'.result
             THEN LET h == sessions'[id].conversation_history
                      turn == TurnLines(user_input, ai_response)
                  IN /\ sessions'[id].turn_count = sessions[id].turn_count + 1
                     /\ Len(h) <= 2 * HistoryTurns
                     /\ Len(h) >= Len(turn)
                     /\ SubSeq(h, Len(h) - Len(turn) + 1, Len(h)) = turn
                     /\ h[1].tag = "User"
             ELSE /\ id \notin DOMAIN sessions'
                  /\ \A k \in DOMAIN sessions \ {id} :
                        k \in DOMAIN sessions' /\ sessions'[k] = sessions[k]]_vars

C32_SweepTakesOnlyInactiveIdle ==
    [][CleanupInactiveSessions =>
          \A c \in DOMAIN speech_sessions :
             IF c \in DOMAIN speech_sessions'
             THEN speech_sessions'[c] = speech_sessions[c]
             ELSE /\ ~speech_sessions[c].is_active
                  /\ now - speech_sessions[c].last_activity
                        > SpeechTimeoutMinutes * SecondsPerMinute]_vars

\* The sweep has just passed over an active session that was idle for
\* longer than the timeout and had been ended and started again before.
C32_Witness ==
    /\ sp_last.op = "cleanup_inactive_sessions"
    /\ \E c \in DOMAIN speech_sessions :
          /\ speech_sessions[c].is_active
          /\ speech_sessions[c].total_duration > 0
          /\ now - speech_sessions[c].last_activity
                > SpeechTimeoutMinutes * SecondsPerMinute

(***************************************************************************)
(* Claims: rate limiter, continued                                         *)
(***************************************************************************)
\* C33: get_retry_after of a client whose bucket holds less than one token
\* is the ceiling of (1 - tokens) / refill_rate, which is the quotient itself
\* when that is a whole number of seconds, and it is 0 when the bucket holds
\* a token.
C33_RetryAfterIsCeiling ==
    \A c \in DOMAIN client_buckets :
        LET b == client_buckets[c]
            tokens_needed == TokenUnit - b.tokens
        IN get_retry_after(client_buckets, c) =
              IF b.tokens >= TokenUnit THEN 0
              ELSE (tokens_needed + b.refill_rate - 1) \div b.refill_rate

(***************************************************************************)
(* Claims: orchestrator, continued                                         *)
(***************************************************************************)
\* C34: the language of a completed response is ja-JP when the user's
\* language is ja-JP and more than 30% of the response's non-space
\* characters are Japanese; otherwise ja-JP when more than 50% are, en-US
\* when not, and the user's language for a response without characters; the
\* rule is the same with and without streaming.
C34_SynthesisLanguage ==
    \A c \in Clients :
        task[c].outcome = "completed" =>
           LET text == task[c].response.text
               user == task[c].language
               japanese == Cardinality({i \in 1..Len(text) : text[i] \in JapaneseSymbols})
               solid == Cardinality({i \in 1..Len(text) : text[i] # " "})
           IN task[c].response.language =
                 IF solid = 0 THEN user
                 ELSE IF user = "ja-JP" /\ 10 * japanese > 3 * solid THEN "ja-JP"
                 ELSE IF 2 * japanese > solid THEN "ja-JP"
                 ELSE "en-US"

\* A streamed response that is Japanese for more than 30% and not more than
\* 50% was completed for a Japanese user and is spoken in Japanese.
C34_Witness ==
    \E c \in Clients :
        /\ task[c].outcome = "completed"
        /\ task[c].via = "stream"
        /\ task[c].language = "ja-JP"
        /\ 10 * japanese_chars(task[c].response.text) > 3 * total_chars(task[c].response.text)
        /\ 2 * japanese_chars(task[c].response.text) <= total_chars(task[c].response.text)
        /\ task[c].response.language = "ja-JP"

(***************************************************************************)
(* Claims: speech results                                                  *)
(***************************************************************************)
\* C35: when the response to a final speech result is completed, the turn
\* is recorded in the session the endpoint created for the client: its
\* turn_count rises by 1 and its history gains the turn.
C35_SpeechTurnRecordedInSession ==
    [][\A c \in Clients :
          (task[c].via = "webspeech" /\ StreamEnd(c) /\ task'[c].outcome = "completed") =>
             /\ c \in DOMAIN sessions'
             /\ sessions'[c].turn_count = sessions[c].turn_count + 1
             /\ Len(sessions'[c].conversation_history)
                   > Len(sessions[c].conversation_history)]_vars

\* C36: a speech result whose generation completed has stored exactly one
\* conversation record, and one that was refused by the limiter or whose
\* generation failed has stored none.
C36_SavedOnlyWhenCompleted ==
    \A c \in Clients :
        task[c].via = "webspeech" =>
           /\ task[c].outcome = "completed" => task[c].saved.stored = 1
           /\ task[c].outcome \in {"denied", "failed"} => task[c].saved.stored = 0

(***************************************************************************)
(* Claims: rate limiter, denial                                            *)
(***************************************************************************)
\* C37: a check_rate_limit call that returned False left in the client's
\* bucket and in the global bucket the tokens they held after the refill at
\* its start, whichever bucket refused.
C37_DenialChargesNothing ==
    (rl_last.client # NoClient /\ ~rl_last.result) =>
        /\ rl_last.cpost = rl_last.cref
        /\ rl_last.gpost = rl_last.gref

(***************************************************************************)
(* Claims: the generator's events                                          *)
(***************************************************************************)
\* C38: a run of generate_response_stream that was consumed to its end has
\* yielded chunks and then exactly one terminal event, 'final' or 'error',
\* whose metadata has is_final true; a run that failed ends with 'error' and
\* holds no 'final'; a run still under way has yielded chunks only.
C38_OneTerminalEventLast ==
    \A c \in Clients :
        LET t == task[c]
            n == Len(t.yielded)
        IN t.via \in {"stream", "webspeech"} =>
              /\ t.pc = "streaming" => \A i \in 1..n : t.yielded[i].type = "chunk"
              /\ t.outcome \in {"completed", "failed", "denied"} =>
                    /\ n >= 1
                    /\ t.yielded[n].type \in {"final", "error"}
                    /\ \A i \in 1..(n - 1) : t.yielded[i].type = "chunk"
                    /\ "is_final" \in DOMAIN t.response.metadata
                    /\ t.response.metadata.is_final
                    /\ t.outcome = "completed" <=> t.yielded[n].type = "final"

\* A stream failed after it had yielded a chunk.
C38_Witness ==
    \E c \in Clients :
        /\ task[c].via = "stream"
        /\ task[c].outcome = "failed"
        /\ Len(task[c].yielded) >= 2
        /\ task[c].yielded[1].type = "chunk"
        /\ task[c].yielded[Len(task[c].yielded)].type = "error"

(***************************************************************************)
(* Claims: one message at a time                                           *)
(***************************************************************************)
\* the messages on websocket w that answer requests of client c
OwnReplies(c, w) == SelectSeq(ws_sent[w], LAMBDA m : m.req \in task[c].mine)

\* C39: a connection's messages are handled one at a time in arrival order.
\* A message is read only when the handler of the one before has returned,
\* so no generation is under way at that moment; every message sent to the
\* client in answer to one of its requests answers the request being
\* handled, which is its latest; the replies a client holds are in the order
\* of its requests.
C39_OneMessageAtATime ==
    [][\A c \in Clients :
          /\ task'[c].req # task[c].req =>
                /\ task[c].pc = "receive"
                /\ task[c].outcome # "generating"
                /\ \A r \in task[c].mine : r < task'[c].req
          /\ task'[c].sock \in DOMAIN ws_sent' =>
                LET w == task'[c].sock
                    was == IF w \in DOMAIN ws_sent THEN ws_sent[w] ELSE <<>>
                    is == ws_sent'[w]
                IN /\ (is # was /\ is # <<>> /\ is[Len(is)].req \in task'[c].mine) =>
                          is[Len(is)].req = task'[c].req
                   /\ \A i, j \in 1..Len(is) :
                         (i < j /\ is[i].req \in task'[c].mine /\ is[j].req \in task'[c].mine) =>
                            is[i].req <= is[j].req]_vars

\* A client's second request is being streamed after its first streamed
\* response was completed and remembered.
C39_Witness ==
    \E c \in Clients :
        /\ task[c].via = "stream"
        /\ task[c].pc = "streaming"
        /\ Len(task[c].yielded) >= 1
        /\ \E i \in 1..Len(memory["speech"]) :
              /\ memory["speech"][i].role = "assistant"
              /\ memory["speech"][i].req \in task[c].mine
              /\ memory["speech"][i].req < task[c].req

(***************************************************************************)
(* Claims: calls for a client without a speech session                     *)
(***************************************************************************)
\* C40: update_session_activity, add_interim_transcript, add_final_transcript
\* and record_error for a client without a SpeechSession return None and
\* leave the registry as it was; the registry gains an entry only in
\* create_session; error_count and recognition_count of a session that stays
\* in the registry never decrease.
C40_NoSessionNoEffect ==
    [][/\ \A c \in Clients :
             (/\ c \notin DOMAIN speech_sessions
              /\ \/ UpdateSessionActivity(c)
                 \/ AddInterimTranscript(c, "konni")
                 \/ AddFinalTranscript(c, "konnichiwa", 95, "ja-JP")
                 \/ RecordError(c, "no-speech")) =>
                /\ speech_sessions' = speech_sessions
                /\ ~sp_last'.found
       /\ \A c \in DOMAIN speech_sessions' \ DOMAIN speech_sessions :
             SpeechCreateSession(c, "ja-JP")
       /\ \A c \in DOMAIN speech_sessions' \cap DOMAIN speech_sessions :
             /\ speech_sessions'[c].error_count >= speech_sessions[c].error_count
             /\ speech_sessions'[c].recognition_count >=
                   speech_sessions[c].recognition_count]_vars

\* record_error was called for a client without a session while another
\* client's session had counted a recognition and an error.
C40_Witness ==
    /\ sp_last.op = "record_error"
    /\ ~sp_last.found
    /\ sp_last.id \notin DOMAIN speech_sessions
    /\ \E c \in DOMAIN speech_sessions :
          /\ speech_sessions[c].error_count >= 1
          /\ speech_sessions[c].recognition_count >= 1

====
